---------------------------- MODULE Spec2Model ----------------------------
(***************************************************************************)
(* Shannon-Fano line encoder run (a) by worker threads whose output is     *)
(* ordered by a cursor (mutex.cpp), and (b) by a thread-per-line client    *)
(* talking to a fork-per-connection server (client.cpp, server.cpp).       *)
(* Each program exists twice in the repository: the original file          *)
(* (src/X.cpp, variant "orig") and a refactored one (src/src/.../X.cpp,    *)
(* variant "refactored").  The variable `variant` selects which of the two *)
(* is running.                                                             *)
(*                                                                         *)
(* Characters are C `char` values, i.e. integers; a line is a sequence of  *)
(* characters.  Code strings are sequences over {48, 49} ('0', '1').       *)
(***************************************************************************)
EXTENDS Integers, Sequences, FiniteSets, TLC

VARIABLES
    variant,      \* "orig" or "refactored": which source file is running
    stdinLines,   \* the lines std::getline delivers, in order
    \* ---- mutex.cpp -------------------------------------------------------
    inputLines,   \* main: std::vector<std::string> inputLines
    counter,      \* main: int counter (the ordering cursor)
    mutex1,       \* TRUE iff mutex1 is locked (handoff lock)
    mutex2,       \* the set of threads holding mutex2: {} (free) or {w}
    condWaiters,  \* workers parked in pthread_cond_wait(condition, mutex2)
    sharedLine,   \* sharedData.line
    sharedId,     \* sharedData.id
    mainPc,       \* position of main
    mainI,        \* main's loop index i (creation loop, then join loop)
    wpc,          \* wpc[w]: position of the w-th created worker thread
    localLine,    \* worker's private copy of data->line
    localID,      \* worker's private copy of data->id
    console,      \* what has been written to stdout and stderr, in order:
                  \* records [t: writing thread (MainThread for main), id, kind, text]
    \* ---- client.cpp -----------------------------------------------------
    clientProc,   \* "running", "exit0" (exit(0) called by a thread), "returned"
    cmainPc,      \* position of the client's main
    cmainI,       \* main's loop index
    threadData,   \* std::vector<ThreadData>: [line, encodedLine, charCodeVec]
    cpc,          \* cpc[i]: position of the thread of line i
    cfd,          \* cfd[i]: the thread's socket: "none", "open", "closed"
    clocal,       \* the thread's locals while it parses the response
    overrun,      \* bytes strcpy wrote past the end of message[32]
    shortSeen,    \* connections on which a read returned fewer bytes than asked
    \* ---- the connections ------------------------------------------------
    conn,         \* conn[i]: "none", "pending" (connected, not yet accepted),
                  \* "accepted"
    c2s,          \* bytes in flight from client i to its handler
    s2c,          \* bytes in flight from handler i to client i, each with the
                  \* field the writer sent it as: [b |-> byte, f |-> field]
    sClosed,      \* the server's end of connection i is closed
    \* ---- server.cpp -----------------------------------------------------
    hpc,          \* hpc[i]: position of the handler process of connection i
    hmsg,         \* the handler's EncodedMsg: [line, charCodeVec, encodedLine]
    hidx,         \* the handler's position in msg.charCodeVec
    hfd,          \* hfd[h]: the connection the handler's newsockfd refers to
    listener,     \* the listening process: [pc, newsockfd, forked, open, inFireman]
                  \*   pc "accept", "fork", "closeNew"; forked: children so far;
                  \*   open: the accepted connections it holds a descriptor of;
                  \*   inFireman: the SIGCHLD handler is running
    backlog,      \* the listen queue: connections completed and not yet accepted
    sigPending,   \* a SIGCHLD is pending for the listener (one flag, not a count)
    reaped,       \* the children waitpid has returned
    serverErr,    \* what the server's processes wrote to std::cerr, in order:
                  \* records [h: the child, kind]
    \* ---- the precision computed in the code loop, on its own -------------
    gen           \* [freq, lineSize, precision, pc]: charCode.freq, lineSize and
                  \* the precision computed from them; pc "idle", "start", "done"

mvars == <<inputLines, counter, mutex1, mutex2, condWaiters, sharedLine,
           sharedId, mainPc, mainI, wpc, localLine, localID>>

cvars == <<clientProc, cmainPc, cmainI, threadData, cpc, cfd, clocal, overrun,
           shortSeen>>

lvars == <<hfd, listener, backlog, sigPending, reaped, serverErr>>
svars == <<conn, c2s, s2c, sClosed, hpc, hmsg, hidx, lvars>>

\* what the threaded program (mutex.cpp) never touches
notMutex == <<variant, stdinLines, cvars, svars, gen>>

\* what the client and the server never touch
notNet == <<variant, stdinLines, mvars, gen>>

vars == <<variant, stdinLines, console, mvars, cvars, svars, gen>>

-----------------------------------------------------------------------------
(* Bounds of the model *)

\* largest number of input lines (and so of worker threads)
MaxTasks == 3

Variants == {"orig", "refactored"}

Slots == 0 .. (MaxTasks - 1)

\* every sequence over S of length at most n
RECURSIVE SeqsUpTo(_, _)
SeqsUpTo(S, n) ==
    IF n = 0 THEN { <<>> }
    ELSE LET shorter == SeqsUpTo(S, n - 1)
         IN  shorter \cup { Append(t, x) : t \in { u \in shorter : Len(u) = n - 1 }, x \in S }

\* the console's name for the main thread
MainThread == MaxTasks

\* largest number of input lines of the client (one connection per line)
MaxClients == 2

Conns == 0 .. (MaxClients - 1)

\* longest of the short request lines tried on the wire
MaxWireLen == 3

\* a byte left in uninitialised memory is any of 0 .. MaxGarbage
MaxGarbage == 1
\* reads that come up short in one run
MaxShortReads == 1

\* the non-empty line offered at input position k (k = 1, 2, ...): "b", "ca",
\* "d", "ea", ...: a different line at every position
LineAt(k) == IF k % 2 = 0 THEN <<97 + k, 97>> ELSE <<97 + k>>

\* the inputs of the threaded runs: up to MaxTasks lines, the k-th one either
\* empty or LineAt(k)
MutexInputs ==
    UNION { { s \in [1 .. n -> {<<>>} \cup { LineAt(k) : k \in 1 .. n }] :
                \A k \in 1 .. n : s[k] \in {<<>>, LineAt(k)} } : n \in 0 .. MaxTasks }

-----------------------------------------------------------------------------
(* The encoder: compareFreqChar, decimalToBinary, shannonCode.  The same   *)
(* code is in all eight files.                                             *)
(*                                                                         *)
(* `float` values are IEEE-754 binary32.  Every float the encoder holds is *)
(* a probability f/n, or a sum of such, of a line of n <= MaxLineSize      *)
(* bytes: it is 0 or at least 2^-7, hence a multiple of 2^-30, and at most *)
(* a little over 1.  A float x is represented by the integer x * 2^30.     *)

\* 2^k
RECURSIVE Pow2(_)
Pow2(k) == IF k = 0 THEN 1 ELSE 2 * Pow2(k - 1)

FloatOne == Pow2(30)

\* longest line the float representation above is exact for
MaxLineSize == Pow2(7)

\* number of binary digits of x > 0
RECURSIVE BitLen(_)
BitLen(x) == IF x = 0 THEN 0 ELSE 1 + BitLen(x \div 2)

\* Round the real number q + r/n (0 <= r < n, in units of 2^-30) to the
\* nearest float, ties to even: binary32 keeps 24 significant bits.
RoundToFloat(q, r, n) ==
    LET drop == IF BitLen(q) > 24 THEN BitLen(q) - 24 ELSE 0
        unit == Pow2(drop)
        kept == q \div unit
        low  == q % unit
        twiceRest == 2 * (low * n + r)     \* rest / unit compared with 1/2
        up == \/ twiceRest > unit * n
              \/ twiceRest = unit * n /\ kept % 2 = 1
    IN  (IF up THEN kept + 1 ELSE kept) * unit

\* (float)freq / lineSize: the correctly rounded quotient.  The exact
\* quotient f * 2^30 / n is computed by long division in two halves.
FloatDiv(f, n) ==
    LET a  == f * Pow2(15)
        r1 == a % n
        b  == r1 * Pow2(15)
    IN  RoundToFloat((a \div n) * Pow2(15) + (b \div n), b % n, n)

\* mutant: the running sum is never advanced
FloatAddNothing(x, y) == x

\* cumulativeProbability += probability: the correctly rounded sum
FloatAdd(x, y) == RoundToFloat(x + y, 0, 1)

\* int precision = ceil(log2(1 / probability)).
\* 1/probability is rounded to a float y; rounding is monotone and every
\* 2^k is a float, so y <= 2^k iff 1/probability <= 2^k; log2 is monotone
\* and exact on powers of two, so ceil(log2(y)) is the least k with
\* y <= 2^k, i.e. the least k with probability * 2^k >= 1.  (y is never
\* within rounding distance of a power of two without being one: f/n differs
\* from every 2^-k it is not equal to by at least 1/n of it.)
RECURSIVE CeilLog2Inv(_, _)
CeilLog2Inv(p, k) ==
    IF p >= FloatOne \div Pow2(k) THEN k ELSE CeilLog2Inv(p, k + 1)

Precision(probability) == CeilLog2Inv(probability, 0)

\* mutant: ties broken by ascending character
compareFreqCharAscending(a, b) ==
    IF a.freq # b.freq THEN a.freq > b.freq ELSE a.character < b.character

\* compareFreqChar(a, b): a sorts before b
compareFreqChar(a, b) ==
    IF a.freq # b.freq THEN a.freq > b.freq ELSE a.character > b.character

\* mutant: the padding loop runs at least once
decimalToBinaryPadsOnce(decimal, precision) ==
    IF precision <= 0 THEN <<48>> ELSE [k \in 1 .. precision |-> 48]

\* decimalToBinary(decimal, precision): the first loop doubles the value and
\* emits its integer digit while decimal > 0 and precision > 0 (temp is a
\* double, temp - 1 is exact and fits a float); the second pads with '0'.
RECURSIVE decimalToBinary(_, _)
decimalToBinary(decimal, precision) ==
    IF precision <= 0 THEN <<>>
    ELSE IF decimal > 0
    THEN LET temp == decimal * 2
         IN  IF temp >= FloatOne
             THEN <<49>> \o decimalToBinary(temp - FloatOne, precision - 1)
             ELSE <<48>> \o decimalToBinary(temp, precision - 1)
    ELSE <<48>> \o decimalToBinary(decimal, precision - 1)

\* mutant: every character is counted once
CountOfPresence(line, c) == 1

\* ++charCountMap[line[i]] over the line: the number of occurrences of c
CountOf(line, c) == Cardinality({ i \in 1 .. Len(line) : line[i] = c })

\* charCountMap copied into charCodeVec: one entry per distinct character
CharCounts(line) ==
    { [character |-> c, freq |-> CountOf(line, c)] : c \in { line[i] : i \in 1 .. Len(line) } }

\* std::sort(charCodeVec.begin(), charCodeVec.end(), compareFreqChar)
RECURSIVE SortCharCodes(_)
SortCharCodes(S) ==
    IF S = {} THEN <<>>
    ELSE LET first == CHOOSE a \in S : \A b \in S \ {a} : compareFreqChar(a, b)
         IN  <<first>> \o SortCharCodes(S \ {first})

\* the loop over charCodeVec that assigns the codes: `sorted` is what is
\* left to process, `cumulativeProbability` the running sum
RECURSIVE AssignCodes(_, _, _)
AssignCodes(sorted, lineSize, cumulativeProbability) ==
    IF sorted = <<>> THEN <<>>
    ELSE LET charCode    == Head(sorted)
             probability == FloatDiv(charCode.freq, lineSize)
             precision   == Precision(probability)
             code        == decimalToBinary(cumulativeProbability, precision)
         IN  <<[character |-> charCode.character, freq |-> charCode.freq, code |-> code]>>
             \o AssignCodes(Tail(sorted), lineSize, FloatAdd(cumulativeProbability, probability))

\* a lookup that returns the code of the first entry for every character
CodeOfFirst(alphabet, c) == alphabet[1].code

\* charCodeMap[c]: the code stored for character c
CodeOf(alphabet, c) ==
    LET i == CHOOSE j \in 1 .. Len(alphabet) : alphabet[j].character = c
    IN  alphabet[i].code

\* encodedLine += charCodeMap[line[i]] for every character of the line
RECURSIVE EncodeLine(_, _)
EncodeLine(alphabet, line) ==
    IF line = <<>> THEN <<>>
    ELSE CodeOf(alphabet, Head(line)) \o EncodeLine(alphabet, Tail(line))

\* shannonCode: the alphabet (charCodeVec) and the encoded line of a line
shannonCode(line) ==
    LET charCodeVec == AssignCodes(SortCharCodes(CharCounts(line)), Len(line), 0)
    IN  [charCodeVec |-> charCodeVec, encodedLine |-> EncodeLine(charCodeVec, line)]

-----------------------------------------------------------------------------
(* Values shared by the client and the server *)

\* the locals of communicateWithServer / receiveResponse
NoLocals == [size |-> 0, idx |-> 0, character |-> 0, freq |-> 0,
             codeLength |-> 0, vec |-> <<>>, encSize |-> 0]

\* no precision is being computed on its own
NoGen == [freq |-> 1, lineSize |-> 1, precision |-> 0, pc |-> "idle"]

\* an EncodedMsg before the request has been read
\* the listener before it runs; newsockfd holds no descriptor (-1)
NoListener == [pc |-> "none", newsockfd |-> 0 - 1, forked |-> 0, open |-> {},
               inFireman |-> FALSE]

NoMsg == [line |-> <<>>, charCodeVec |-> <<>>, encodedLine |-> <<>>]

\* sizeof(message), ClientConfig::BUFFER_SIZE, ServerConfig::BUFFER_SIZE
BUFFER_SIZE == 32

\* sizeof(int)
IntSize == 4

\* a char as the byte that travels, and back (char is signed)
ToByte(c) == (c + 256) % 256
ToChar(b) == IF b >= 128 THEN b - 256 ELSE b

\* the C string held in a buffer: the bytes before the first NUL
RECURSIVE CStr(_)
CStr(buf) ==
    IF buf = <<>> \/ Head(buf) = 0 THEN <<>> ELSE <<Head(buf)>> \o CStr(Tail(buf))

\* n copies of x
Fill(n, x) == [k \in 1 .. n |-> x]

\* the first n elements of a sequence, and the rest
Take(seq, n) == SubSeq(seq, 1, n)
Drop(seq, n) == SubSeq(seq, n + 1, Len(seq))

\* write(fd, &v, sizeof(int)): the four bytes of an int, in host order
\* (little-endian)
IntToBytes(v) ==
    <<v % 256, (v \div 256) % 256, (v \div 65536) % 256, (v \div 16777216) % 256>>

\* the int a read(fd, &v, sizeof(int)) leaves in v, from the four bytes of v:
\* a signed 32-bit value
IntFromBytes(bs) ==
    bs[1] + 256 * bs[2] + 65536 * bs[3]
      + 16777216 * (IF bs[4] >= 128 THEN bs[4] - 256 ELSE bs[4])

\* bytes put on the response stream, each with the field it was written as
Tagged(bytes, field) == [k \in 1 .. Len(bytes) |-> [b |-> bytes[k], f |-> field]]
Untagged(elems) == [k \in 1 .. Len(elems) |-> elems[k].b]

-----------------------------------------------------------------------------
(* mutex.cpp: main *)

\* src/src/sync/mutex.cpp:225-229 keeps only the non-empty lines;
\* src/mutex.cpp:198-200 keeps every line.
ReadInput(v, lines) ==
    IF v = "refactored" THEN SelectSeq(lines, LAMBDA l : l # <<>>) ELSE lines

NumTasks == Len(inputLines)

InitMutexVars ==
    /\ inputLines = ReadInput(variant, stdinLines)
    /\ counter = 0
    /\ mutex1 = FALSE
    /\ mutex2 = {}
    /\ condWaiters = {}
    /\ sharedLine = <<>>
    /\ sharedId = 0
    /\ mainPc = "start"
    /\ mainI = 0
    /\ wpc = [w \in Slots |-> "none"]
    /\ localLine = [w \in Slots |-> <<>>]
    /\ localID = [w \in Slots |-> 0]
    /\ console = <<>>

\* the threaded program is not running
IdleMutex ==
    /\ inputLines = <<>>
    /\ counter = 0
    /\ mutex1 = FALSE
    /\ mutex2 = {}
    /\ condWaiters = {}
    /\ sharedLine = <<>>
    /\ sharedId = 0
    /\ mainPc = "exit"
    /\ mainI = 0
    /\ wpc = [w \in Slots |-> "none"]
    /\ localLine = [w \in Slots |-> <<>>]
    /\ localID = [w \in Slots |-> 0]
    /\ console = <<>>

\* the client and the server are not running
IdleNet ==
    /\ clientProc = "returned"
    /\ cmainPc = "exit"
    /\ cmainI = 0
    /\ threadData = <<>>
    /\ cpc = [i \in Conns |-> "none"]
    /\ cfd = [i \in Conns |-> "none"]
    /\ clocal = [i \in Conns |-> NoLocals]
    /\ overrun = [i \in Conns |-> 0]
    /\ shortSeen = <<>>
    /\ conn = [i \in Conns |-> "none"]
    /\ c2s = [i \in Conns |-> <<>>]
    /\ s2c = [i \in Conns |-> <<>>]
    /\ sClosed = [i \in Conns |-> FALSE]
    /\ hpc = [i \in Conns |-> "none"]
    /\ hmsg = [i \in Conns |-> NoMsg]
    /\ hidx = [i \in Conns |-> 0]
    /\ hfd = [i \in Conns |-> 0 - 1]
    /\ listener = NoListener
    /\ backlog = <<>>
    /\ sigPending = FALSE
    /\ reaped = {}
    /\ serverErr = <<>>

Init ==
    /\ variant \in Variants
    /\ stdinLines \in MutexInputs
    /\ InitMutexVars
    /\ IdleNet
    /\ gen = NoGen

\* if (inputLines.empty()) { "No input provided."; return 0; }  (refactored only)
MainStart ==
    /\ mainPc = "start"
    /\ IF variant = "refactored" /\ NumTasks = 0
       THEN /\ console' = Append(console, [t |-> MainThread, id |-> 0, kind |-> "NoInput", text |-> <<>>])
            /\ mainPc' = "exit"
       ELSE /\ console' = console
            /\ mainPc' = IF NumTasks > 0 THEN "lock1" ELSE "join"
    /\ UNCHANGED <<notMutex, inputLines, counter, mutex1, mutex2, condWaiters, sharedLine,
                   sharedId, mainI, wpc, localLine, localID>>

\* mutant: the lock on mutex1 does not hold main back
MainLock1NeverBlocks == TRUE

\* a creation loop that waits for every earlier worker to finish
MainLock1WaitsForDone == ~mutex1 /\ \A w \in Slots : wpc[w] \in {"none", "done"}

\* pthread_mutex_lock(&mutex1): blocks while the mutex is locked
MainLock1Guard == ~mutex1

MainLock1 ==
    /\ mainPc = "lock1"
    /\ MainLock1Guard
    /\ mutex1' = TRUE
    /\ mainPc' = "setLine"
    /\ UNCHANGED <<notMutex, inputLines, counter, mutex2, condWaiters, sharedLine,
                   sharedId, mainI, wpc, localLine, localID, console>>

\* sharedData.line = inputLines[i];
MainSetLine ==
    /\ mainPc = "setLine"
    /\ sharedLine' = inputLines[mainI + 1]
    /\ mainPc' = "setId"
    /\ UNCHANGED <<notMutex, inputLines, counter, mutex1, mutex2, condWaiters,
                   sharedId, mainI, wpc, localLine, localID, console>>

\* sharedData.id = i;
MainSetId ==
    /\ mainPc = "setId"
    /\ sharedId' = mainI
    /\ mainPc' = "create"
    /\ UNCHANGED <<notMutex, inputLines, counter, mutex1, mutex2, condWaiters,
                   sharedLine, mainI, wpc, localLine, localID, console>>

\* pthread_create(&tid, nullptr, shannonCode, &sharedData); threads.push_back(tid); ++i
MainCreate ==
    /\ mainPc = "create"
    /\ wpc' = [wpc EXCEPT ![mainI] = "copyLine"]
    /\ mainI' = IF mainI + 1 < NumTasks THEN mainI + 1 ELSE 0
    /\ mainPc' = IF mainI + 1 < NumTasks THEN "lock1" ELSE "join"
    /\ UNCHANGED <<notMutex, inputLines, counter, mutex1, mutex2, condWaiters, sharedLine,
                   sharedId, localLine, localID, console>>

\* pthread_join(threads[i], nullptr) for i = 0 .. N-1, then the cleanup
\* (refactored: pthread_mutex_destroy x2, pthread_cond_destroy) and return 0
MainJoin ==
    /\ mainPc = "join"
    /\ IF mainI < NumTasks
       THEN /\ wpc[mainI] = "done"
            /\ mainI' = mainI + 1
            /\ mainPc' = mainPc
       ELSE /\ mainI' = mainI
            /\ mainPc' = IF variant = "refactored" THEN "destroy" ELSE "exit"
    /\ UNCHANGED <<notMutex, inputLines, counter, mutex1, mutex2, condWaiters, sharedLine,
                   sharedId, wpc, localLine, localID, console>>

MainDestroy ==
    /\ mainPc = "destroy"
    /\ mainPc' = "exit"
    /\ UNCHANGED <<notMutex, inputLines, counter, mutex1, mutex2, condWaiters, sharedLine,
                   sharedId, mainI, wpc, localLine, localID, console>>

-----------------------------------------------------------------------------
(* mutex.cpp: shannonCode, the worker thread.  w is the creation index of  *)
(* the thread; what it believes to be its index is localID[w].             *)

\* std::string line = data->line;
WorkerCopyLine(w) ==
    /\ wpc[w] = "copyLine"
    /\ localLine' = [localLine EXCEPT ![w] = sharedLine]
    /\ wpc' = [wpc EXCEPT ![w] = "copyId"]
    /\ UNCHANGED <<notMutex, inputLines, counter, mutex1, mutex2, condWaiters, sharedLine,
                   sharedId, mainPc, mainI, localID, console>>

\* a worker that goes from its copies to the compute phase without the unlock
AfterCopyNoUnlock(v) == "encode"

\* what follows the two copies: the log line (refactored), then
\* pthread_mutex_unlock(data->mutex1)
AfterCopy(v) == IF v = "refactored" THEN "logStart" ELSE "unlock1"

\* int localID = data->id;
WorkerCopyId(w) ==
    /\ wpc[w] = "copyId"
    /\ localID' = [localID EXCEPT ![w] = sharedId]
    /\ wpc' = [wpc EXCEPT ![w] = AfterCopy(variant)]
    /\ UNCHANGED <<notMutex, inputLines, counter, mutex1, mutex2, condWaiters, sharedLine,
                   sharedId, mainPc, mainI, localLine, console>>

\* Logger::log(message): lock logMutex, one line to std::cout, unlock logMutex.
\* logMutex is taken by no other code, so the three steps are one step here.
LogEntry(w, what) == [t |-> w, id |-> localID[w], kind |-> what, text |-> <<>>]

\* Logger::log("Thread " + id + " starting processing");  (refactored only)
WorkerLogStart(w) ==
    /\ wpc[w] = "logStart"
    /\ console' = Append(console, LogEntry(w, "LogStart"))
    /\ wpc' = [wpc EXCEPT ![w] = "unlock1"]
    /\ UNCHANGED <<notMutex, inputLines, counter, mutex1, mutex2, condWaiters, sharedLine,
                   sharedId, mainPc, mainI, localLine, localID>>

\* pthread_mutex_unlock(data->mutex1): the worker unlocks the mutex main
\* locked (a default, non-error-checking mutex: the unlock takes effect)
WorkerUnlock1(w) ==
    /\ wpc[w] = "unlock1"
    /\ mutex1' = FALSE
    /\ wpc' = [wpc EXCEPT ![w] = "encode"]
    /\ UNCHANGED <<notMutex, inputLines, counter, mutex2, condWaiters, sharedLine,
                   sharedId, mainPc, mainI, localLine, localID, console>>

\* the compute phase: frequencies, sort, codes, encoded line (private data)
WorkerEncode(w) ==
    /\ wpc[w] = "encode"
    /\ wpc' = [wpc EXCEPT ![w] = "lock2"]
    /\ UNCHANGED <<notMutex, inputLines, counter, mutex1, mutex2, condWaiters, sharedLine,
                   sharedId, mainPc, mainI, localLine, localID, console>>

\* pthread_mutex_lock(data->mutex2), before the wait loop and before counter++
WorkerLock2(w) ==
    /\ wpc[w] \in {"lock2", "relock2", "lock2b"}
    /\ mutex2 = {}
    /\ mutex2' = {w}
    /\ wpc' = [wpc EXCEPT ![w] = IF wpc[w] = "lock2b" THEN "incr" ELSE "check"]
    /\ UNCHANGED <<notMutex, inputLines, counter, mutex1, condWaiters, sharedLine,
                   sharedId, mainPc, mainI, localLine, localID, console>>

\* a wait loop that lets every worker through
MustWaitNever(w) == FALSE

\* mutant: the wait loop tests the cursor the wrong way round
MustWaitWrongTest(w) == localID[w] < counter

\* the loop condition: localID != *(data->counter)
MustWait(w) == localID[w] # counter

\* while (localID != counter) pthread_cond_wait(condition, mutex2);
\* pthread_mutex_unlock(mutex2);
\* cond_wait releases mutex2 and parks the thread in one atomic step.
WorkerCheck(w) ==
    /\ wpc[w] = "check"
    /\ mutex2' = {}
    /\ IF MustWait(w)
       THEN /\ condWaiters' = condWaiters \cup {w}
            /\ wpc' = [wpc EXCEPT ![w] = "wait"]
       ELSE /\ condWaiters' = condWaiters
            /\ wpc' = [wpc EXCEPT ![w] = "print"]
    /\ UNCHANGED <<notMutex, inputLines, counter, mutex1, sharedLine,
                   sharedId, mainPc, mainI, localLine, localID, console>>

\* a spurious wakeup, which pthread_cond_wait permits: the thread leaves the
\* wait without a broadcast and goes on to reacquire mutex2
WorkerSpuriousWake(w) ==
    /\ wpc[w] = "wait"
    /\ w \in condWaiters
    /\ condWaiters' = condWaiters \ {w}
    /\ wpc' = [wpc EXCEPT ![w] = "relock2"]
    /\ UNCHANGED <<notMutex, inputLines, counter, mutex1, mutex2, sharedLine,
                   sharedId, mainPc, mainI, localLine, localID, console>>

\* std::cout << "Message: " << line << std::endl << std::endl;
WorkerPrintMessage(w) ==
    /\ wpc[w] = "print"
    /\ console' = Append(console, [t |-> w, id |-> localID[w], kind |-> "Message", text |-> localLine[w]])
    /\ wpc' = [wpc EXCEPT ![w] = "printRest"]
    /\ UNCHANGED <<notMutex, inputLines, counter, mutex1, mutex2, condWaiters, sharedLine,
                   sharedId, mainPc, mainI, localLine, localID>>

\* "Alphabet:", one line per symbol, then "Encoded message: ..."
WorkerPrintRest(w) ==
    /\ wpc[w] = "printRest"
    /\ console' = Append(console, [t |-> w, id |-> localID[w], kind |-> "Encoded",
                                    text |-> shannonCode(localLine[w]).encodedLine])
    /\ wpc' = [wpc EXCEPT ![w] = "lock2b"]
    /\ UNCHANGED <<notMutex, inputLines, counter, mutex1, mutex2, condWaiters, sharedLine,
                   sharedId, mainPc, mainI, localLine, localID>>

\* an advance of the cursor by two
Skipped(c) == c + 2

\* (*(data->counter))++ on the int counter
Incremented(c) == c + 1

\* (*(data->counter))++;
WorkerIncrement(w) ==
    /\ wpc[w] = "incr"
    /\ counter' = Incremented(counter)
    /\ wpc' = [wpc EXCEPT ![w] = "broadcast"]
    /\ UNCHANGED <<notMutex, inputLines, mutex1, mutex2, condWaiters, sharedLine,
                   sharedId, mainPc, mainI, localLine, localID, console>>

\* a pthread_cond_signal in place of the broadcast: one parked thread wakes
WokenOne(waiters) ==
    IF waiters = {} THEN {} ELSE {CHOOSE u \in waiters : \A v \in waiters : v <= u}

\* the threads a pthread_cond_broadcast wakes: every parked thread
Woken(waiters) == waiters

\* pthread_cond_broadcast(data->condition);
WorkerBroadcast(w) ==
    /\ wpc[w] = "broadcast"
    /\ condWaiters' = condWaiters \ Woken(condWaiters)
    /\ wpc' = [u \in Slots |->
                 IF u = w THEN "unlock2b"
                 ELSE IF u \in Woken(condWaiters) THEN "relock2"
                 ELSE wpc[u]]
    /\ UNCHANGED <<notMutex, inputLines, counter, mutex1, mutex2, sharedLine,
                   sharedId, mainPc, mainI, localLine, localID, console>>

\* pthread_mutex_unlock(data->mutex2); then (refactored) the completion log
WorkerUnlock2b(w) ==
    /\ wpc[w] = "unlock2b"
    /\ mutex2' = {}
    /\ wpc' = [wpc EXCEPT ![w] = IF variant = "refactored" THEN "logDone" ELSE "done"]
    /\ UNCHANGED <<notMutex, inputLines, counter, mutex1, condWaiters, sharedLine,
                   sharedId, mainPc, mainI, localLine, localID, console>>

\* Logger::log("Thread " + id + " completed"); return nullptr;
WorkerLogDone(w) ==
    /\ wpc[w] = "logDone"
    /\ console' = Append(console, LogEntry(w, "LogDone"))
    /\ wpc' = [wpc EXCEPT ![w] = "done"]
    /\ UNCHANGED <<notMutex, inputLines, counter, mutex1, mutex2, condWaiters, sharedLine,
                   sharedId, mainPc, mainI, localLine, localID>>

\* encoder.encode() throws (std::bad_alloc from a string or vector, the
\* std::invalid_argument of decimalToBinary): control passes to the handler at
\* src/src/sync/mutex.cpp:205.  src/mutex.cpp has no handler.
WorkerEncodeThrows(w) ==
    /\ wpc[w] = "encode"
    /\ variant = "refactored"
    /\ wpc' = [wpc EXCEPT ![w] = "catch"]
    /\ UNCHANGED <<notMutex, inputLines, counter, mutex1, mutex2, condWaiters, sharedLine,
                   sharedId, mainPc, mainI, localLine, localID, console>>

\* catch (const std::exception& e) { Logger::log("Thread error: ..."); return nullptr; }
WorkerCatch(w) ==
    /\ wpc[w] = "catch"
    /\ console' = Append(console, LogEntry(w, "LogError"))
    /\ wpc' = [wpc EXCEPT ![w] = "done"]
    /\ UNCHANGED <<notMutex, inputLines, counter, mutex1, mutex2, condWaiters, sharedLine,
                   sharedId, mainPc, mainI, localLine, localID>>

Next ==
    \/ MainStart
    \/ MainLock1
    \/ MainSetLine
    \/ MainSetId
    \/ MainCreate
    \/ MainJoin
    \/ MainDestroy
    \/ \E w \in Slots : WorkerCopyLine(w)
    \/ \E w \in Slots : WorkerCopyId(w)
    \/ \E w \in Slots : WorkerLogStart(w)
    \/ \E w \in Slots : WorkerUnlock1(w)
    \/ \E w \in Slots : WorkerEncode(w)
    \/ \E w \in Slots : WorkerLock2(w)
    \/ \E w \in Slots : WorkerCheck(w)
    \/ \E w \in Slots : WorkerSpuriousWake(w)
    \/ \E w \in Slots : WorkerPrintMessage(w)
    \/ \E w \in Slots : WorkerPrintRest(w)
    \/ \E w \in Slots : WorkerIncrement(w)
    \/ \E w \in Slots : WorkerBroadcast(w)
    \/ \E w \in Slots : WorkerUnlock2b(w)
    \/ \E w \in Slots : WorkerLogDone(w)

\* the threaded program, no step failing
Spec == Init /\ [][Next]_vars

\* the steps of main and of worker w, spurious wakeups left out; the step
\* WorkerPrintRest, which nothing can hold back, has its fairness stated by
\* its position
MainStep ==
    \/ MainStart \/ MainLock1 \/ MainSetLine \/ MainSetId \/ MainCreate \/ MainJoin
    \/ MainDestroy

WorkerStep(w) ==
    \/ WorkerCopyLine(w) \/ WorkerCopyId(w) \/ WorkerLogStart(w) \/ WorkerUnlock1(w)
    \/ WorkerEncode(w) \/ WorkerLock2(w) \/ WorkerCheck(w) \/ WorkerPrintMessage(w)
    \/ WorkerIncrement(w) \/ WorkerBroadcast(w)
    \/ WorkerUnlock2b(w) \/ WorkerLogDone(w)

\* Fair scheduling: a thread that can take its next step eventually takes
\* it, and a thread that asks for a mutex which is free again and again
\* eventually gets it.  Nothing is assumed of spurious wakeups.
FairScheduling ==
    /\ SF_vars(MainStep)
    /\ \A w \in Slots : SF_vars(WorkerStep(w)) /\ []<>(wpc[w] # "printRest")

\* the threaded program, no step failing, under fair scheduling
SpecFair == Init /\ [][Next]_vars /\ FairScheduling

\* the threaded program when the encode step of a task may throw
NextEncodeFails ==
    \/ Next
    \/ \E w \in Slots : WorkerEncodeThrows(w)
    \/ \E w \in Slots : WorkerCatch(w)

SpecEncodeFails == Init /\ [][NextEncodeFails]_vars

\* pthread_create returns nonzero for task mainI:
\*   original:   std::cerr << "Error creating thread"; return 1;
\*   refactored: throw std::runtime_error("Failed to create thread i"), caught
\*               in main: std::cerr << "Fatal error: ..."; return 1;
\* no thread is created and mutex1 stays locked
MainCreateFails ==
    /\ mainPc = "create"
    /\ console' = Append(console, [t |-> MainThread, id |-> mainI, kind |-> "Error", text |-> <<>>])
    /\ mainPc' = "return1"
    /\ UNCHANGED <<notMutex, inputLines, counter, mutex1, mutex2, condWaiters, sharedLine,
                   sharedId, mainI, wpc, localLine, localID>>

\* the workers a return from main leaves behind: the process exits and
\* every thread that has not returned ends where it is
EndedWithProcess(pcs) ==
    [w \in Slots |-> IF pcs[w] \in {"none", "done"} THEN pcs[w] ELSE "killed"]

\* return 1 from main: the process exits with the workers still running
MainReturn1 ==
    /\ mainPc = "return1"
    /\ mainPc' = "exit1"
    /\ wpc' = EndedWithProcess(wpc)
    /\ condWaiters' = {}
    /\ UNCHANGED <<notMutex, inputLines, counter, mutex1, mutex2, sharedLine,
                   sharedId, mainI, localLine, localID, console>>

NextCreateFails ==
    \/ Next
    \/ MainCreateFails
    \/ MainReturn1

SpecCreateFails == Init /\ [][NextCreateFails]_vars

-----------------------------------------------------------------------------
(* client.cpp: main.  Task i is the thread of threadData[i + 1].           *)

NumClients == Len(threadData)

\* while (std::getline(std::cin, line)) threadData.push_back(...): one record
\* per line (src/src/network/client.cpp:212-217 keeps only non-empty lines)
InitClientVars ==
    /\ clientProc = "running"
    /\ cmainPc = "start"
    /\ cmainI = 0
    /\ threadData = [k \in 1 .. Len(ReadInput(variant, stdinLines)) |->
                        [line |-> ReadInput(variant, stdinLines)[k],
                         encodedLine |-> <<>>, charCodeVec |-> <<>>]]
    /\ cpc = [i \in Conns |-> "none"]
    /\ cfd = [i \in Conns |-> "none"]
    /\ clocal = [i \in Conns |-> NoLocals]
    /\ overrun = [i \in Conns |-> 0]
    /\ shortSeen = <<>>

\* the server is listening and nothing has connected
InitServerVars ==
    /\ conn = [i \in Conns |-> "none"]
    /\ c2s = [i \in Conns |-> <<>>]
    /\ s2c = [i \in Conns |-> <<>>]
    /\ sClosed = [i \in Conns |-> FALSE]
    /\ hpc = [i \in Conns |-> "none"]
    /\ hmsg = [i \in Conns |-> NoMsg]
    /\ hidx = [i \in Conns |-> 0]
    /\ hfd = [i \in Conns |-> 0 - 1]
    /\ listener = [NoListener EXCEPT !.pc = "accept"]
    /\ backlog = <<>>
    /\ sigPending = FALSE
    /\ reaped = {}
    /\ serverErr = <<>>

\* if (threadData.empty()) { "No input provided."; return 0; }  (refactored only)
ClientMainStart ==
    /\ clientProc = "running"
    /\ cmainPc = "start"
    /\ IF variant = "refactored" /\ NumClients = 0
       THEN /\ console' = Append(console, [t |-> MainThread, id |-> 0, kind |-> "NoInput", text |-> <<>>])
            /\ cmainPc' = "exit"
            /\ clientProc' = "returned"
       ELSE /\ console' = console
            /\ cmainPc' = IF NumClients > 0 THEN "create" ELSE "display"
            /\ clientProc' = clientProc
    /\ UNCHANGED <<notNet, svars, cmainI, threadData, cpc, cfd, clocal, overrun, shortSeen>>

\* pthread_create(&tid[i], nullptr, communicateWithServer, &threadData[i])
ClientMainCreate ==
    /\ clientProc = "running"
    /\ cmainPc = "create"
    /\ cpc' = [cpc EXCEPT ![cmainI] = "socket"]
    /\ cmainI' = IF cmainI + 1 < NumClients THEN cmainI + 1 ELSE 0
    /\ cmainPc' = IF cmainI + 1 < NumClients THEN "create" ELSE "join"
    /\ UNCHANGED <<notNet, svars, console, clientProc, threadData, cfd, clocal, overrun, shortSeen>>

\* a join that returns at once, whether the thread has ended or not
JoinReturnsAtOnce(i) == TRUE

\* pthread_join(tid[i], nullptr) returns when thread i has ended
JoinReturns(i) == cpc[i] = "done"

\* pthread_join(tid[i], nullptr) for i = 0 .. N-1
ClientMainJoin ==
    /\ clientProc = "running"
    /\ cmainPc = "join"
    /\ JoinReturns(cmainI)
    /\ cmainI' = IF cmainI + 1 < NumClients THEN cmainI + 1 ELSE 0
    /\ cmainPc' = IF cmainI + 1 < NumClients THEN "join" ELSE "display"
    /\ UNCHANGED <<notNet, svars, console, clientProc, threadData, cpc, cfd, clocal, overrun, shortSeen>>

\* mutant: the display loop runs from the last record to the first
DisplayIndexReversed(k) == NumClients - 1 - k

\* the index of the record the display loop prints in its k-th pass (from 0)
DisplayIndex(k) == k

\* the three parts of the block of record i: "Message: ...", the alphabet
\* lines, "Encoded message: ..."
BlockOf(i) ==
    << [t |-> MainThread, id |-> i, kind |-> "Message", text |-> threadData[i + 1].line],
       [t |-> MainThread, id |-> i, kind |-> "Alphabet", text |-> threadData[i + 1].charCodeVec],
       [t |-> MainThread, id |-> i, kind |-> "Encoded", text |-> threadData[i + 1].encodedLine] >>

\* the display loop of main (displayResults), one record per step, then return 0
ClientMainDisplay ==
    /\ clientProc = "running"
    /\ cmainPc = "display"
    /\ IF cmainI < NumClients
       THEN /\ console' = console \o BlockOf(DisplayIndex(cmainI))
            /\ cmainI' = cmainI + 1
            /\ cmainPc' = cmainPc
            /\ clientProc' = clientProc
       ELSE /\ console' = console
            /\ cmainI' = cmainI
            /\ cmainPc' = "exit"
            /\ clientProc' = "returned"
    /\ UNCHANGED <<notNet, svars, threadData, cpc, cfd, clocal, overrun, shortSeen>>

-----------------------------------------------------------------------------
(* client.cpp: communicateWithServer, the thread of one line *)

\* sockfd = socket(AF_INET, SOCK_STREAM, 0);
ClientSocket(i) ==
    /\ clientProc = "running"
    /\ cpc[i] = "socket"
    /\ cfd' = [cfd EXCEPT ![i] = "open"]
    /\ cpc' = [cpc EXCEPT ![i] = "resolve"]
    /\ UNCHANGED <<notNet, svars, console, clientProc, cmainPc, cmainI, threadData, clocal, overrun, shortSeen>>

\* server = gethostbyname(hostname);
ClientResolve(i) ==
    /\ clientProc = "running"
    /\ cpc[i] = "resolve"
    /\ cpc' = [cpc EXCEPT ![i] = "connect"]
    /\ UNCHANGED <<notNet, svars, console, clientProc, cmainPc, cmainI, threadData, cfd, clocal, overrun, shortSeen>>

\* connect(sockfd, ...): the connection enters the server's listen queue
ClientConnect(i) ==
    /\ clientProc = "running"
    /\ cpc[i] = "connect"
    /\ conn' = [conn EXCEPT ![i] = "pending"]
    /\ backlog' = Append(backlog, i)
    /\ cpc' = [cpc EXCEPT ![i] = "send"]
    /\ UNCHANGED <<notNet, console, clientProc, cmainPc, cmainI, threadData, cfd, clocal, overrun, shortSeen,
                   c2s, s2c, sClosed, hpc, hmsg, hidx, hfd, listener, sigPending, reaped, serverErr>>

\* The request buffer as written to the socket.
\* src/client.cpp:75-76: char message[32]; strcpy(message, line.c_str());
\*   strcpy copies the C string and its terminator, however long; what it
\*   does not reach keeps what the stack held (fill).
\* src/src/network/client.cpp:99-101: strncpy(buffer, c_str, 31) copies at
\*   most 31 bytes and pads with NUL; buffer[31] = '\0'.
MessageOf(v, line, fill) ==
    LET str == CStr([k \in 1 .. Len(line) |-> ToByte(line[k])])
    IN  IF v = "refactored"
        THEN Take(str, IF Len(str) < BUFFER_SIZE - 1 THEN Len(str) ELSE BUFFER_SIZE - 1)
             \o Fill(BUFFER_SIZE - (IF Len(str) < BUFFER_SIZE - 1 THEN Len(str) ELSE BUFFER_SIZE - 1), 0)
        ELSE IF Len(str) + 1 <= BUFFER_SIZE
             THEN str \o <<0>> \o Fill(BUFFER_SIZE - Len(str) - 1, fill)
             ELSE Take(str, BUFFER_SIZE)

\* the bytes strcpy writes beyond message[31] (none with strncpy)
OverrunOf(v, line) ==
    LET str == CStr([k \in 1 .. Len(line) |-> ToByte(line[k])])
    IN  IF v = "orig" /\ Len(str) + 1 > BUFFER_SIZE THEN Len(str) + 1 - BUFFER_SIZE ELSE 0

\* fill the request buffer and write(sockfd, message, sizeof(message))
ClientSend(i) ==
    /\ clientProc = "running"
    /\ cpc[i] = "send"
    /\ \E fill \in 0 .. MaxGarbage :
          c2s' = [c2s EXCEPT ![i] = @ \o MessageOf(variant, threadData[i + 1].line, fill)]
    /\ overrun' = [overrun EXCEPT ![i] = OverrunOf(variant, threadData[i + 1].line)]
    /\ cpc' = [cpc EXCEPT ![i] = "readSize"]
    /\ UNCHANGED <<notNet, console, clientProc, cmainPc, cmainI, threadData, cfd, clocal, shortSeen,
                   conn, s2c, sClosed, hpc, hmsg, hidx, lvars>>

\* the fields of the response in the order the client reads them, as the
\* positions of the thread
ReadPcs == {"readSize", "readChar", "readFreq", "readLen", "readCode", "readEncSize", "readEnc"}

\* the field a read at position pc is for
FieldOf(pc) ==
    CASE pc = "readSize" -> "size"
      [] pc = "readChar" -> "character"
      [] pc = "readFreq" -> "freq"
      [] pc = "readLen" -> "codeLength"
      [] pc = "readCode" -> "code"
      [] pc = "readEncSize" -> "encodedSize"
      [] pc = "readEnc" -> "encodedLine"

\* mutant: the character is read as an int
ReadWidthCharAsInt(pc, loc) ==
    CASE pc \in {"readSize", "readChar", "readFreq", "readLen", "readEncSize"} -> IntSize
      [] pc = "readCode" -> loc.codeLength
      [] pc = "readEnc" -> loc.encSize

\* the byte count the read at position pc asks for
ReadWidth(pc, loc) ==
    CASE pc \in {"readSize", "readFreq", "readLen", "readEncSize"} -> IntSize
      [] pc = "readChar" -> 1
      [] pc = "readCode" -> loc.codeLength
      [] pc = "readEnc" -> loc.encSize

\* an int variable after a read put the bytes `got` at its start: the bytes
\* not overwritten keep what the variable held (junk)
IntAfterRead(got, junk) == IntFromBytes(got \o SubSeq(junk, Len(got) + 1, IntSize))

\* where the thread goes after the loop test i < charCodeVecSize
LoopTest(idx, size) == IF idx < size THEN "readChar" ELSE "readEncSize"

\* One read(sockfd, dest, width) that returned k bytes, and what the thread
\* does with dest up to its next read.  junk is what dest held before.
ClientReadStep(i, k, junk) ==
    LET pc  == cpc[i]
        loc == clocal[i]
        got == Untagged(Take(s2c[i], k))
        entry == [character |-> loc.character, freq |-> loc.freq, code |-> CStr(got)]
        loc2 == CASE pc = "readSize" ->
                       [loc EXCEPT !.size = IntAfterRead(got, junk), !.idx = 0, !.vec = <<>>]
                  [] pc = "readChar" ->
                       [loc EXCEPT !.character = IF k >= 1 THEN ToChar(got[1]) ELSE junk[1]]
                  [] pc = "readFreq" -> [loc EXCEPT !.freq = IntAfterRead(got, junk)]
                  [] pc = "readLen" -> [loc EXCEPT !.codeLength = IntAfterRead(got, junk)]
                  [] pc = "readCode" -> [loc EXCEPT !.vec = Append(@, entry), !.idx = @ + 1]
                  [] pc = "readEncSize" -> [loc EXCEPT !.encSize = IntAfterRead(got, junk)]
                  [] pc = "readEnc" -> loc
        next == CASE pc = "readSize" -> LoopTest(0, loc2.size)
                  [] pc = "readChar" -> "readFreq"
                  [] pc = "readFreq" -> "readLen"
                  [] pc = "readLen" -> "readCode"
                  [] pc = "readCode" -> LoopTest(loc2.idx, loc2.size)
                  [] pc = "readEncSize" -> "readEnc"
                  [] pc = "readEnc" -> "close"
        \* src/src/network/client.cpp:116,146 fills data.charCodeVec as it
        \* reads; src/client.cpp:146 stores the local vector after the loop
        stored == IF variant = "refactored"
                  THEN pc \in {"readSize", "readCode"}
                  ELSE pc \in {"readSize", "readCode"} /\ next = "readEncSize"
    IN  /\ s2c' = [s2c EXCEPT ![i] = Drop(@, k)]
        /\ clocal' = [clocal EXCEPT ![i] = loc2]
        /\ cpc' = [cpc EXCEPT ![i] = next]
        /\ threadData' =
              [threadData EXCEPT ![i + 1] =
                  [@ EXCEPT !.charCodeVec = IF stored THEN loc2.vec ELSE @,
                            !.encodedLine = IF pc = "readEnc" THEN CStr(got) ELSE @]]
        /\ UNCHANGED <<notNet, console, clientProc, cmainPc, cmainI, cfd, overrun,
                       conn, c2s, sClosed, hpc, hmsg, hidx, lvars>>

\* a read that returns every byte it asked for
ClientFullRead(i, pc) ==
    /\ clientProc = "running"
    /\ cpc[i] = pc
    /\ Len(s2c[i]) >= ReadWidth(pc, clocal[i])
    /\ ClientReadStep(i, ReadWidth(pc, clocal[i]), Fill(IntSize, 0))
    /\ UNCHANGED shortSeen

\* read(sockfd, &charCodeVecSize, sizeof(int))
ClientReadSize(i) == ClientFullRead(i, "readSize")
\* read(sockfd, &charCode.character, sizeof(char))
ClientReadChar(i) == ClientFullRead(i, "readChar")
\* read(sockfd, &charCode.freq, sizeof(int))
ClientReadFreq(i) == ClientFullRead(i, "readFreq")
\* read(sockfd, &codeLength, sizeof(int))
ClientReadLen(i) == ClientFullRead(i, "readLen")
\* read(sockfd, codeBuffer, codeLength); charCodeVec.push_back(charCode)
ClientReadCode(i) == ClientFullRead(i, "readCode")
\* read(sockfd, &encodedSize, sizeof(int))
ClientReadEncSize(i) == ClientFullRead(i, "readEncSize")
\* read(sockfd, encodedBuffer, encodedSize); curr_ptr->encodedLine = encodedBuffer
ClientReadEnc(i) == ClientFullRead(i, "readEnc")

\* close(sockfd); return nullptr;   (refactored: ~NetworkClient closes)
\* A thread that overran message[32] has a damaged stack: it may return or
\* the process may be aborted.
ClientReturn(i) ==
    /\ clientProc = "running"
    /\ cpc[i] = "close"
    /\ cfd' = [cfd EXCEPT ![i] = "closed"]
    /\ cpc' = [cpc EXCEPT ![i] = "done"]
    /\ clientProc' \in (IF overrun[i] > 0 THEN {"running", "aborted"} ELSE {"running"})
    /\ UNCHANGED <<notNet, svars, console, cmainPc, cmainI, threadData, clocal, overrun, shortSeen>>

-----------------------------------------------------------------------------
(* server.cpp: the listener's accept/fork and the handler process *)

\* a listener that serves one connection at a time: it goes on only when
\* every child it forked has ended
ListenerWaitsForChild(l, pcs) ==
    ~l.inFireman /\ \A h \in Conns : pcs[h] \in {"none", "exited", "failed", "killed"}

\* The listener runs its loop whenever its SIGCHLD handler is not running,
\* whatever its children (at positions pcs) are doing.
ListenerRunnable(l, pcs) == ~l.inFireman

ListenerRuns == ListenerRunnable(listener, hpc)

\* the connection accept() returns: the one at the head of the listen queue
AcceptedFrom(queue) == Head(queue)

\* newsockfd = accept(sockfd, ...): blocks while the listen queue is empty
ListenerAccept ==
    /\ ListenerRuns
    /\ listener.pc = "accept"
    /\ backlog # <<>>
    /\ listener' = [listener EXCEPT !.pc = "fork",
                                     !.newsockfd = AcceptedFrom(backlog),
                                     !.open = @ \cup {AcceptedFrom(backlog)}]
    /\ backlog' = Tail(backlog)
    /\ conn' = [conn EXCEPT ![AcceptedFrom(backlog)] = "accepted"]
    /\ UNCHANGED <<notNet, console, cvars, c2s, s2c, sClosed, hpc, hmsg, hidx, hfd,
                   sigPending, reaped, serverErr>>

\* children that all talk on the first connection
ChildDescriptorShared(parent) == 0

\* the descriptor the child finds in its copy of newsockfd
ChildDescriptor(parent) == parent.newsockfd

\* if (fork() == 0) { ... }: the child, the next of the listener's children,
\* starts at its read of the request with a copy of newsockfd.  The parent
\* goes on to close(newsockfd) (src/src/network/server.cpp:229) or straight
\* back to accept (src/server.cpp:250: it never closes newsockfd).
ListenerFork ==
    /\ ListenerRuns
    /\ listener.pc = "fork"
    /\ listener.forked \in Conns
    /\ hpc' = [hpc EXCEPT ![listener.forked] = "read"]
    /\ hfd' = [hfd EXCEPT ![listener.forked] = ChildDescriptor(listener)]
    /\ listener' = [listener EXCEPT !.forked = @ + 1,
                                     !.pc = IF variant = "refactored" THEN "closeNew"
                                            ELSE "accept"]
    /\ UNCHANGED <<notNet, console, cvars, conn, c2s, s2c, sClosed, hmsg, hidx, backlog,
                   sigPending, reaped, serverErr>>

\* close(newsockfd);  // Parent doesn't need the connected socket
ListenerCloseNew ==
    /\ ListenerRuns
    /\ listener.pc = "closeNew"
    /\ listener' = [listener EXCEPT !.pc = "accept", !.open = @ \ {listener.newsockfd}]
    /\ UNCHANGED <<notNet, console, cvars, conn, c2s, s2c, sClosed, hpc, hmsg, hidx, hfd,
                   backlog, sigPending, reaped, serverErr>>

\* the children that have terminated and that no waitpid has returned yet
Zombies == { h \in Conns : hpc[h] \in {"exited", "failed", "killed"} /\ h \notin reaped }

\* the kernel delivers the pending SIGCHLD: fireman starts.  While it runs
\* SIGCHLD is blocked, so a further one stays pending.
SignalDeliver ==
    /\ sigPending
    /\ ~listener.inFireman
    /\ listener.pc # "none"
    /\ sigPending' = FALSE
    /\ listener' = [listener EXCEPT !.inFireman = TRUE]
    /\ UNCHANGED <<notNet, console, cvars, conn, c2s, s2c, sClosed, hpc, hmsg, hidx, hfd,
                   backlog, reaped, serverErr>>

\* while (waitpid(-1, NULL, WNOHANG) > 0);  -- one pass: waitpid returns
\* any one of the terminated children, h
FiremanWaitpid(h) ==
    /\ listener.inFireman
    /\ h \in Zombies
    /\ reaped' = reaped \cup {h}
    /\ UNCHANGED <<notNet, console, cvars, conn, c2s, s2c, sClosed, hpc, hmsg, hidx, hfd,
                   listener, backlog, sigPending, serverErr>>

\* a handler that calls waitpid once and returns whatever it found
WaitpidOnce(zombies) == TRUE

\* a waitpid without WNOHANG: it returns nothing only when no child is left
WaitpidBlocking(zombies) ==
    zombies = {} /\ \A h \in Conns : hpc[h] \in {"none", "exited", "failed", "killed"}

\* the test that ends fireman's loop: waitpid(-1, NULL, WNOHANG) > 0 is
\* false, which is when no terminated child is left
WaitpidFindsNone(zombies) == zombies = {}

\* waitpid returns 0 or -1, no terminated child being left: fireman returns
\* and the listener resumes where the signal met it
FiremanReturn ==
    /\ listener.inFireman
    /\ WaitpidFindsNone(Zombies)
    /\ listener' = [listener EXCEPT !.inFireman = FALSE]
    /\ UNCHANGED <<notNet, console, cvars, conn, c2s, s2c, sClosed, hpc, hmsg, hidx, hfd,
                   backlog, sigPending, reaped, serverErr>>

\* msg.line = message: the C string that starts at message.  When none of
\* the bytes received is NUL the conversion runs on into whatever follows
\* the buffer (tail) until it meets a NUL.
LineOfMessage(message, tail) ==
    LET bytes == IF \E k \in 1 .. Len(message) : message[k] = 0
                 THEN CStr(message) ELSE message \o tail
    IN  [k \in 1 .. Len(bytes) |-> ToChar(bytes[k])]

\* what may follow the buffer when the conversion runs past it
OverreadTails == { <<>> } \cup { <<g>> : g \in 1 .. MaxGarbage }

\* the handler after read() left `message` in its buffer: msg.line = message;
\* shannonCode(msg);
HandlerTakeRequest(i, message, taken) ==
    /\ \E tail \in OverreadTails :
          LET line == LineOfMessage(message, tail)
              enc  == shannonCode(line)
          IN  hmsg' = [hmsg EXCEPT ![i] = [line |-> line, charCodeVec |-> enc.charCodeVec,
                                           encodedLine |-> enc.encodedLine]]
    /\ c2s' = [c2s EXCEPT ![hfd[i]] = Drop(@, taken)]
    /\ hpc' = [hpc EXCEPT ![i] = "writeSize"]
    /\ UNCHANGED <<notNet, console, clientProc, cmainPc, cmainI, threadData, cpc, cfd,
                   clocal, overrun, conn, s2c, sClosed, hidx, lvars>>

\* n = read(newsockfd, &message, sizeof(message)), all 32 bytes arriving
HandlerRead(i) ==
    /\ hpc[i] = "read"
    /\ Len(c2s[hfd[i]]) >= BUFFER_SIZE
    /\ HandlerTakeRequest(i, Take(c2s[hfd[i]], BUFFER_SIZE), BUFFER_SIZE)
    /\ UNCHANGED shortSeen

\* one write(newsockfd, ...) of the handler: `bytes` sent as field `field`
HandlerWrite(i, pc, bytes, field, next, idx) ==
    /\ hpc[i] = pc
    /\ s2c' = [s2c EXCEPT ![hfd[i]] = @ \o Tagged(bytes, field)]
    /\ hpc' = [hpc EXCEPT ![i] = next]
    /\ hidx' = [hidx EXCEPT ![i] = idx]
    /\ UNCHANGED <<notNet, console, cvars, conn, c2s, sClosed, hmsg, lvars>>

\* the bytes of a string of '0'/'1' characters, or of any line
BytesOf(str) == [k \in 1 .. Len(str) |-> ToByte(str[k])]

\* int charCodeVecSize = msg.charCodeVec.size(); write(..., sizeof(int))
HandlerWriteSize(i) ==
    HandlerWrite(i, "writeSize", IntToBytes(Len(hmsg[i].charCodeVec)), "size",
                 IF Len(hmsg[i].charCodeVec) > 0 THEN "writeChar" ELSE "writeEncSize", 1)

\* write(newsockfd, &charCode.character, sizeof(char))
HandlerWriteChar(i) ==
    HandlerWrite(i, "writeChar", <<ToByte(hmsg[i].charCodeVec[hidx[i]].character)>>,
                 "character", "writeFreq", hidx[i])

\* write(newsockfd, &charCode.freq, sizeof(int))
HandlerWriteFreq(i) ==
    HandlerWrite(i, "writeFreq", IntToBytes(hmsg[i].charCodeVec[hidx[i]].freq),
                 "freq", "writeLen", hidx[i])

\* int codeLength = charCode.code.size(); write(newsockfd, &codeLength, sizeof(int))
HandlerWriteLen(i) ==
    HandlerWrite(i, "writeLen", IntToBytes(Len(hmsg[i].charCodeVec[hidx[i]].code)),
                 "codeLength", "writeCode", hidx[i])

\* write(newsockfd, charCode.code.c_str(), codeLength); next entry
HandlerWriteCode(i) ==
    HandlerWrite(i, "writeCode", BytesOf(hmsg[i].charCodeVec[hidx[i]].code), "code",
                 IF hidx[i] < Len(hmsg[i].charCodeVec) THEN "writeChar" ELSE "writeEncSize",
                 hidx[i] + 1)

\* int encodedSize = msg.encodedLine.size(); write(newsockfd, &encodedSize, sizeof(int))
HandlerWriteEncSize(i) ==
    HandlerWrite(i, "writeEncSize", IntToBytes(Len(hmsg[i].encodedLine)), "encodedSize",
                 "writeEnc", hidx[i])

\* write(newsockfd, encodedLine, encodedSize)
HandlerWriteEnc(i) ==
    HandlerWrite(i, "writeEnc", BytesOf(hmsg[i].encodedLine), "encodedLine", "close", hidx[i])

\* a child that goes back to read another request after its close
AfterCloseServesAgain == "read"

\* _exit(0): where the child is after close(newsockfd)
AfterClose == "exited"

\* close(newsockfd); _exit(0);  -- the child is a zombie until it is
\* reaped, and its end raises SIGCHLD in the listener
HandlerClose(i) ==
    /\ hpc[i] = "close"
    /\ sClosed' = [sClosed EXCEPT ![hfd[i]] = TRUE]
    /\ hpc' = [hpc EXCEPT ![i] = AfterClose]
    /\ sigPending' = TRUE
    /\ UNCHANGED <<notNet, console, cvars, conn, c2s, s2c, hmsg, hidx, hfd, listener,
                   backlog, reaped, serverErr>>

\* the client's reads of connection c meet the end of the stream once no
\* process of the server holds a descriptor of it
ServerEndClosed(c) == sClosed[c] /\ c \notin listener.open

-----------------------------------------------------------------------------
(* Reads that return fewer bytes than asked for.  The code tests n < 0     *)
(* only, so the thread or handler goes on as after a full read.            *)

\* a read of the response returns k bytes, k less than the width asked for:
\* some of the bytes in flight, or none at the end of a closed stream
ClientShortRead(i) ==
    /\ clientProc = "running"
    /\ cpc[i] \in ReadPcs
    /\ \E k \in 0 .. Len(s2c[i]) :
          /\ k < ReadWidth(cpc[i], clocal[i])
          /\ k >= 1 \/ (s2c[i] = <<>> /\ ServerEndClosed(i))
          /\ \E g \in 0 .. MaxGarbage : ClientReadStep(i, k, <<g>> \o Fill(IntSize - 1, 0))
    /\ Len(shortSeen) < MaxShortReads
    /\ shortSeen' = Append(shortSeen, <<"client", i>>)

\* the handler's read of the request returns k < 32 bytes; the rest of
\* message[32] keeps what the stack held (fill)
HandlerShortRead(i) ==
    /\ hpc[i] = "read"
    /\ \E k \in 1 .. (BUFFER_SIZE - 1) :
          /\ k <= Len(c2s[hfd[i]])
          /\ \E fill \in 0 .. MaxGarbage :
                HandlerTakeRequest(i, Take(c2s[hfd[i]], k) \o Fill(BUFFER_SIZE - k, fill), k)
    /\ Len(shortSeen) < MaxShortReads
    /\ shortSeen' = Append(shortSeen, <<"handler", i>>)

-----------------------------------------------------------------------------
(* Failing calls of a handler process.                                     *)
(* src/server.cpp: if (n < 0) { std::cerr << "Error ..."; exit(1); } after *)
(*   the read and after every write.                                       *)
(* src/src/network/server.cpp: handleClient throws after the read and      *)
(*   after the first write; run() catches, writes "Client handling error", *)
(*   closes newsockfd and calls _exit(1).  The results of the other writes *)
(*   are not looked at.                                                    *)

WritePcs == {"writeSize", "writeChar", "writeFreq", "writeLen", "writeCode",
             "writeEncSize", "writeEnc"}

\* an exit that takes every child of the listener with it
EndedByGroup(h) == Conns

\* the processes that exit(1), _exit(1) or a fatal signal in child h ends:
\* the child itself
EndedBy(h) == {h}

\* child h ends before its time: its descriptors are closed, it stays a
\* zombie until it is reaped and SIGCHLD is raised in the listener
HandlerEnds(h, how, reports) ==
    LET ended == { g \in EndedBy(h) : hpc[g] \notin {"none", "exited", "failed", "killed"} }
    IN  /\ hpc' = [g \in Conns |-> IF g \in ended THEN how ELSE hpc[g]]
        /\ sClosed' = [c \in Conns |-> sClosed[c] \/ \E g \in ended : hfd[g] = c]
        /\ sigPending' = TRUE
        /\ serverErr' = IF reports THEN Append(serverErr, [h |-> h, kind |-> "Error"])
                        ELSE serverErr
        /\ UNCHANGED <<notNet, console, cvars, conn, c2s, s2c, hmsg, hidx, hfd, listener,
                       backlog, reaped>>

\* read() < 0
HandlerReadFails(h) ==
    /\ hpc[h] = "read"
    /\ HandlerEnds(h, "failed", TRUE)

\* write() < 0: fatal where the code tests n.  Where it does not (every
\* write after the first in src/src/network/server.cpp:177-188) handleClient
\* goes on; a connection on which a write has failed fails the writes that
\* follow too, so the handler arrives at close(newsockfd) having written
\* nothing more.
HandlerWriteFails(h) ==
    /\ hpc[h] \in WritePcs
    /\ IF variant = "orig" \/ hpc[h] = "writeSize"
       THEN HandlerEnds(h, "failed", TRUE)
       ELSE /\ hpc' = [hpc EXCEPT ![h] = "close"]
            /\ UNCHANGED <<notNet, console, cvars, conn, c2s, s2c, sClosed, hmsg, hidx, lvars>>

\* write() on a connection the peer has reset raises SIGPIPE, which neither
\* file handles: the child is killed and writes nothing to std::cerr
HandlerSigpipe(h) ==
    /\ hpc[h] \in WritePcs
    /\ HandlerEnds(h, "killed", FALSE)

-----------------------------------------------------------------------------
(* Failing calls of a client thread.                                       *)
(* src/client.cpp: std::cerr << "ERROR ..."; exit(0);  -- exit ends the    *)
(*   process, every thread with it.                                        *)
(* src/src/network/client.cpp: throw std::runtime_error; the handler in    *)
(*   communicateWithServer writes "Thread error: ..." and the thread       *)
(*   returns.  ~NetworkClient closes the socket if the constructor had     *)
(*   completed (closes).                                                   *)
ClientFails(i, closes) ==
    /\ clientProc = "running"
    /\ console' = Append(console, [t |-> i, id |-> i, kind |-> "Error", text |-> <<>>])
    /\ IF variant = "orig"
       THEN /\ clientProc' = "exit0"
            /\ UNCHANGED <<cpc, cfd>>
       ELSE /\ clientProc' = clientProc
            /\ cpc' = [cpc EXCEPT ![i] = "done"]
            /\ cfd' = [cfd EXCEPT ![i] = IF closes THEN "closed" ELSE @]
    /\ UNCHANGED <<notNet, svars, cmainPc, cmainI, threadData, clocal, overrun, shortSeen>>

\* socket() < 0
ClientSocketFails(i) == cpc[i] = "socket" /\ ClientFails(i, FALSE)
\* gethostbyname() == NULL
ClientResolveFails(i) == cpc[i] = "resolve" /\ ClientFails(i, FALSE)
\* connect() < 0
ClientConnectFails(i) == cpc[i] = "connect" /\ ClientFails(i, FALSE)
\* write() < 0
ClientWriteFails(i) == cpc[i] = "send" /\ ClientFails(i, TRUE)
\* read() < 0
ClientReadFails(i) == cpc[i] \in ReadPcs /\ ClientFails(i, TRUE)

-----------------------------------------------------------------------------
(* The client and the server together *)

\* characters of the short request lines: NUL, 'a', 'b'
WireChars == {0, 97, 98}

\* a line of n bytes: 'a' ... 'a' 'b' 'c'
LongLine(n) == [k \in 1 .. n |-> IF k = n THEN 99 ELSE IF k = n - 1 THEN 98 ELSE 97]

\* the request lines tried on the wire: every line of up to MaxWireLen
\* characters, and lines of 30 to 33 bytes, around the 32-byte buffer
WireLines ==
    SeqsUpTo(WireChars, MaxWireLen)
      \cup { LongLine(n) : n \in (BUFFER_SIZE - 2) .. (BUFFER_SIZE + 1) }

\* the inputs of the client runs with several lines: the k-th line is empty
\* or the one character 'a' + k
ClientInputs ==
    UNION { { s \in [1 .. n -> {<<>>} \cup { <<97 + k>> : k \in 1 .. n }] :
                \A k \in 1 .. n : s[k] \in {<<>>, <<97 + k>>} } : n \in 0 .. MaxClients }

InitWire ==
    /\ variant \in Variants
    /\ stdinLines \in { <<l>> : l \in WireLines }
    /\ IdleMutex
    /\ InitClientVars
    /\ InitServerVars
    /\ gen = NoGen

InitClients ==
    /\ variant \in Variants
    /\ stdinLines \in ClientInputs
    /\ IdleMutex
    /\ InitClientVars
    /\ InitServerVars
    /\ gen = NoGen

NextNet ==
    \/ ClientMainStart
    \/ ClientMainCreate
    \/ ClientMainJoin
    \/ ClientMainDisplay
    \/ \E i \in Conns : ClientSocket(i)
    \/ \E i \in Conns : ClientResolve(i)
    \/ \E i \in Conns : ClientConnect(i)
    \/ \E i \in Conns : ClientSend(i)
    \/ \E i \in Conns : ClientReadSize(i)
    \/ \E i \in Conns : ClientReadChar(i)
    \/ \E i \in Conns : ClientReadFreq(i)
    \/ \E i \in Conns : ClientReadLen(i)
    \/ \E i \in Conns : ClientReadCode(i)
    \/ \E i \in Conns : ClientReadEncSize(i)
    \/ \E i \in Conns : ClientReadEnc(i)
    \/ \E i \in Conns : ClientReturn(i)
    \/ ListenerAccept
    \/ ListenerFork
    \/ ListenerCloseNew
    \/ SignalDeliver
    \/ \E h \in Conns : FiremanWaitpid(h)
    \/ FiremanReturn
    \/ \E i \in Conns : HandlerRead(i)
    \/ \E i \in Conns : HandlerWriteSize(i)
    \/ \E i \in Conns : HandlerWriteChar(i)
    \/ \E i \in Conns : HandlerWriteFreq(i)
    \/ \E i \in Conns : HandlerWriteLen(i)
    \/ \E i \in Conns : HandlerWriteCode(i)
    \/ \E i \in Conns : HandlerWriteEncSize(i)
    \/ \E i \in Conns : HandlerWriteEnc(i)
    \/ \E i \in Conns : HandlerClose(i)

\* one request line on one connection, every read and write complete
SpecWire == InitWire /\ [][NextNet]_vars

\* several lines, one connection each, every call succeeding
SpecClients == InitClients /\ [][NextNet]_vars

NextShortIO ==
    \/ NextNet
    \/ \E i \in Conns : ClientShortRead(i)
    \/ \E i \in Conns : HandlerShortRead(i)

\* The listener is a process of its own: whenever it can take a step it
\* eventually does, in its loop and in its signal handler.  Nothing is
\* assumed of the clients and of the handlers, which may stall anywhere.
ListenerFairness ==
    /\ WF_vars(ListenerAccept)
    /\ WF_vars(ListenerFork)
    /\ WF_vars(ListenerCloseNew)
    /\ WF_vars(SignalDeliver)
    /\ WF_vars(\E h \in Conns : FiremanWaitpid(h))
    /\ WF_vars(FiremanReturn)

\* several lines, one connection each, with a listener that is scheduled
SpecListenerFair == InitClients /\ [][NextNet]_vars /\ ListenerFairness

\* the steps of the client's main, and those of the thread of line i
ClientMainStep ==
    ClientMainStart \/ ClientMainCreate \/ ClientMainJoin \/ ClientMainDisplay

ClientThreadStep(i) ==
    \/ ClientSocket(i) \/ ClientResolve(i) \/ ClientConnect(i) \/ ClientSend(i)
    \/ ClientReadSize(i) \/ ClientReadChar(i) \/ ClientReadFreq(i) \/ ClientReadLen(i)
    \/ ClientReadCode(i) \/ ClientReadEncSize(i) \/ ClientReadEnc(i) \/ ClientReturn(i)

\* The client is a process of its own: main and every thread take the steps
\* they can take.  Nothing is assumed of the server, which may stall: a
\* read() of the client blocks for as long as no byte arrives, there being
\* no timeout on the socket.
ClientFairness ==
    /\ WF_vars(ClientMainStep)
    /\ \A i \in Conns : WF_vars(ClientThreadStep(i))

\* several lines, one connection each, with a client that is scheduled
SpecClientFair == InitClients /\ [][NextNet]_vars /\ ClientFairness

NextHandlerFail ==
    \/ NextNet
    \/ \E h \in Conns : HandlerReadFails(h)
    \/ \E h \in Conns : HandlerWriteFails(h)
    \/ \E h \in Conns : HandlerSigpipe(h)

\* several lines, one connection each, calls of the handlers that may fail
SpecHandlerFail == InitClients /\ [][NextHandlerFail]_vars

\* one request line on one connection, reads that may come up short
SpecShortIO == InitWire /\ [][NextShortIO]_vars

NextConnFail ==
    \/ NextNet
    \/ \E i \in Conns : ClientSocketFails(i)
    \/ \E i \in Conns : ClientResolveFails(i)
    \/ \E i \in Conns : ClientConnectFails(i)
    \/ \E i \in Conns : ClientWriteFails(i)
    \/ \E i \in Conns : ClientReadFails(i)

\* several lines, one connection each, calls of the client that may fail
SpecConnFail == InitClients /\ [][NextConnFail]_vars

\* one request line on one connection, calls of the client that may fail
SpecWireFail == InitWire /\ [][NextConnFail]_vars

-----------------------------------------------------------------------------
(* multiThreading.cpp: one thread per line runs shannonCode on its own     *)
(* record of threadData; main joins the threads and prints the records.    *)
(* The records, the thread positions and main's position are the ones of   *)
(* client.cpp (threadData, cpc, cmainPc, cmainI).                           *)

\* the lines given to the encoder: characters 'a', 'b', 'c' and the byte
\* 0xC3, which is -61 as a (signed) char
EncodeChars == {97, 98, 99, 0 - 61}

\* longest line of which every arrangement of the characters is tried
MaxEncodeLen == 4

\* largest frequency of a character in the longer lines
MaxFreq == 4

\* the line of f[1] times 'a', f[2] times 'b', f[3] times 'c', f[4] times 0xC3
LineOfFreqs(f) ==
    Fill(f[1], 97) \o Fill(f[2], 98) \o Fill(f[3], 99) \o Fill(f[4], 0 - 61)

\* the inputs of the encoding runs: one line, either short with its
\* characters in any order or longer with any frequencies up to MaxFreq
\* frequencies of lines of 24 bytes, among them lines whose cumulative
\* frequency reaches 7/8 of the line after three entries
LongFreqs == { <<10, 6, 5, 3>>, <<9, 7, 5, 3>>, <<12, 6, 3, 3>>, <<8, 8, 4, 4>> }

EncodeLines ==
    SeqsUpTo(EncodeChars, MaxEncodeLen)
      \cup { LineOfFreqs(f) : f \in [1 .. 4 -> 0 .. MaxFreq] }
      \cup { LineOfFreqs(f) : f \in LongFreqs }

\* log(level, message): lock logMutex, one line, unlock logMutex
\* (src/src/threading/multiThreading.cpp:32-50); one step
MtLog(t, i, what) == [t |-> t, id |-> i, kind |-> what, text |-> <<>>]

\* src/src/threading/multiThreading.cpp:176-194: log, read the lines, warn
\* and return when there is none, log the count.  src/multiThreading.cpp:
\* 145-156 reads the lines.
MtMainStart ==
    /\ clientProc = "running"
    /\ cmainPc = "start"
    /\ IF variant = "refactored"
       THEN IF NumClients = 0
            THEN /\ console' = console \o <<MtLog(MainThread, 0, "LogProgramStart"),
                                            MtLog(MainThread, 0, "LogNoInput")>>
                 /\ cmainPc' = "exit"
                 /\ clientProc' = "returned"
            ELSE /\ console' = console \o <<MtLog(MainThread, 0, "LogProgramStart"),
                                            MtLog(MainThread, NumClients, "LogProcessing")>>
                 /\ cmainPc' = "create"
                 /\ clientProc' = clientProc
       ELSE /\ console' = console
            /\ cmainPc' = IF NumClients > 0 THEN "create" ELSE "display"
            /\ clientProc' = clientProc
    /\ UNCHANGED <<notNet, svars, cmainI, threadData, cpc, cfd, clocal, overrun, shortSeen>>

\* pthread_create(&tid[i], nullptr, shannonCode, &threadData[i]), and in
\* the refactored program log("Created thread i")
MtMainCreate ==
    /\ clientProc = "running"
    /\ cmainPc = "create"
    /\ cpc' = [cpc EXCEPT ![cmainI] = IF variant = "refactored" THEN "logStart" ELSE "count"]
    /\ console' = IF variant = "refactored"
                  THEN Append(console, MtLog(MainThread, cmainI, "LogCreated"))
                  ELSE console
    /\ cmainI' = IF cmainI + 1 < NumClients THEN cmainI + 1 ELSE 0
    /\ cmainPc' = IF cmainI + 1 < NumClients THEN "create" ELSE "join"
    /\ UNCHANGED <<notNet, svars, clientProc, threadData, cfd, clocal, overrun, shortSeen>>

\* pthread_join(tid[i], nullptr), and in the refactored program
\* log("Joined thread i")
MtMainJoin ==
    /\ clientProc = "running"
    /\ cmainPc = "join"
    /\ JoinReturns(cmainI)
    /\ console' = IF variant = "refactored"
                  THEN Append(console, MtLog(MainThread, cmainI, "LogJoined"))
                  ELSE console
    /\ cmainI' = IF cmainI + 1 < NumClients THEN cmainI + 1 ELSE 0
    /\ cmainPc' = IF cmainI + 1 < NumClients THEN "join" ELSE "display"
    /\ UNCHANGED <<notNet, svars, clientProc, threadData, cpc, cfd, clocal, overrun, shortSeen>>

\* the print loop of main, one record per step, then (refactored) the last
\* log line, and return 0
MtMainDisplay ==
    /\ clientProc = "running"
    /\ cmainPc = "display"
    /\ IF cmainI < NumClients
       THEN /\ console' = console \o BlockOf(cmainI)
            /\ cmainI' = cmainI + 1
            /\ cmainPc' = cmainPc
            /\ clientProc' = clientProc
       ELSE /\ console' = IF variant = "refactored"
                          THEN Append(console, MtLog(MainThread, 0, "LogProgramDone"))
                          ELSE console
            /\ cmainI' = cmainI
            /\ cmainPc' = "exit"
            /\ clientProc' = "returned"
    /\ UNCHANGED <<notNet, svars, threadData, cpc, cfd, clocal, overrun, shortSeen>>

\* a step of the thread of record i that writes rec into the record
MtThreadStep(i, pc, rec, next) ==
    /\ clientProc = "running"
    /\ cpc[i] = pc
    /\ threadData' = [threadData EXCEPT ![i + 1] = rec]
    /\ cpc' = [cpc EXCEPT ![i] = next]
    /\ UNCHANGED <<notNet, svars, console, clientProc, cmainPc, cmainI, cfd, clocal,
                   overrun, shortSeen>>

\* a step of the thread of record i that logs
MtThreadLog(i, pc, what, next) ==
    /\ clientProc = "running"
    /\ cpc[i] = pc
    /\ console' = Append(console, MtLog(i, i, what))
    /\ cpc' = [cpc EXCEPT ![i] = next]
    /\ UNCHANGED <<notNet, svars, clientProc, cmainPc, cmainI, threadData, cfd, clocal,
                   overrun, shortSeen>>

\* log("Starting Shannon encoding for thread")  (refactored only)
MtLogStart(i) == MtThreadLog(i, "logStart", "LogStart", "count")

\* the entries of a std::map<char, int> in the order of iteration:
\* ascending character
RECURSIVE MapOrder(_)
MapOrder(S) ==
    IF S = {} THEN <<>>
    ELSE LET first == CHOOSE a \in S : \A b \in S : a.character <= b.character
         IN  <<first>> \o MapOrder(S \ {first})

\* the count loop, and the copy of charCountMap into the record's
\* charCodeVec, each entry with an empty code
MtCount(i) ==
    MtThreadStep(i, "count",
                 [threadData[i + 1] EXCEPT !.charCodeVec =
                     MapOrder({ [character |-> e.character, freq |-> e.freq, code |-> <<>>] :
                                    e \in CharCounts(threadData[i + 1].line) })],
                 "sort")

\* the elements of a sequence
Elements(s) == { s[k] : k \in 1 .. Len(s) }

\* std::sort(curr_ptr->charCodeVec.begin(), curr_ptr->charCodeVec.end(), compareFreqChar)
MtSort(i) ==
    MtThreadStep(i, "sort",
                 [threadData[i + 1] EXCEPT !.charCodeVec = SortCharCodes(Elements(@))],
                 "codes")

\* the loop that gives every entry its code
MtGenerateCodes(i) ==
    MtThreadStep(i, "codes",
                 [threadData[i + 1] EXCEPT !.charCodeVec =
                     AssignCodes(@, Len(threadData[i + 1].line), 0)],
                 "encodeLine")

\* the loop that builds encodedLine
MtEncodeMessage(i) ==
    MtThreadStep(i, "encodeLine",
                 [threadData[i + 1] EXCEPT !.encodedLine =
                     EncodeLine(threadData[i + 1].charCodeVec, threadData[i + 1].line)],
                 IF variant = "refactored" THEN "logDone" ELSE "done")

\* log("Completed Shannon encoding for thread"); return nullptr  (refactored only)
MtLogDone(i) == MtThreadLog(i, "logDone", "LogDone", "done")

InitThreads ==
    /\ variant \in Variants
    /\ stdinLines \in { <<>> } \cup { <<l>> : l \in EncodeLines }
    /\ IdleMutex
    /\ InitClientVars
    /\ InitServerVars
    /\ gen = NoGen

NextThreads ==
    \/ MtMainStart
    \/ MtMainCreate
    \/ MtMainJoin
    \/ MtMainDisplay
    \/ \E i \in Conns : MtLogStart(i)
    \/ \E i \in Conns : MtCount(i)
    \/ \E i \in Conns : MtSort(i)
    \/ \E i \in Conns : MtGenerateCodes(i)
    \/ \E i \in Conns : MtEncodeMessage(i)
    \/ \E i \in Conns : MtLogDone(i)

\* the encoder run by multiThreading.cpp on one line
SpecThreads == InitThreads /\ [][NextThreads]_vars

\* the lines of the runs with several threads
PairLines == { <<97>>, <<98, 97>>, <<97, 97, 98>>, <<99, 98, 97, 99>> }

InitThreadPairs ==
    /\ variant \in Variants
    /\ stdinLines \in SeqsUpTo(PairLines, MaxClients)
    /\ IdleMutex
    /\ InitClientVars
    /\ InitServerVars
    /\ gen = NoGen

\* multiThreading.cpp on up to MaxClients lines, one thread each
SpecThreadPairs == InitThreadPairs /\ [][NextThreads]_vars

-----------------------------------------------------------------------------
(* The precision of one entry, for a line of any length:                   *)
(*   float probability = (float)charCode.freq / lineSize;                  *)
(*   int precision = ceil(log2(1 / probability));                          *)
(* A float is written [m, e], the value m * 2^e with 2^23 <= m < 2^24.     *)

\* significand m rounded from acc + rest, where `half` compares rest with
\* one half (-1 below, 0 equal, 1 above): round to nearest, ties to even
RoundSignificand(acc, e, half) ==
    LET up == half > 0 \/ (half = 0 /\ acc % 2 = 1)
        m1 == IF up THEN acc + 1 ELSE acc
    IN  IF m1 = Pow2(24) THEN [m |-> Pow2(23), e |-> e + 1] ELSE [m |-> m1, e |-> e]

\* (float)x for an int x > 0
FloatOfInt(x) ==
    LET bits == BitLen(x)
    IN  IF bits <= 24
        THEN [m |-> x * Pow2(24 - bits), e |-> bits - 24]
        ELSE LET unit == Pow2(bits - 24)
                 rest == x % unit
             IN  RoundSignificand(x \div unit, bits - 24,
                                  IF 2 * rest > unit THEN 1 ELSE IF 2 * rest = unit THEN 0 ELSE -1)

\* long division: acc holds the bits of the quotient found so far, r the
\* remainder (r < den), pos the number of bits after the binary point; the
\* division stops when acc has 24 bits
RECURSIVE QuotBits(_, _, _, _)
QuotBits(r, den, acc, pos) ==
    IF acc >= Pow2(23) THEN [acc |-> acc, pos |-> pos, r |-> r]
    ELSE IF 2 * r >= den
         THEN QuotBits(2 * r - den, den, 2 * acc + 1, pos + 1)
         ELSE QuotBits(2 * r, den, 2 * acc, pos + 1)

\* a / b for floats a, b: the correctly rounded quotient
FloatQuotient(a, b) ==
    LET q == IF a.m >= b.m THEN QuotBits(a.m - b.m, b.m, 1, 0) ELSE QuotBits(a.m, b.m, 0, 0)
    IN  RoundSignificand(q.acc, a.e - b.e - q.pos,
                         IF 2 * q.r > b.m THEN 1 ELSE IF 2 * q.r = b.m THEN 0 ELSE -1)

\* The values ceil(log2(y)) can take for a float y >= 1, y = 2^K * (1 + j/2^23).
\* src/multiThreading.cpp:118 and the other original files call log2 on a
\* double: the result is K exactly for j = 0 and above K otherwise.
\* src/src/.../*.cpp call std::log2(float): the result is the float nearest
\* to K + log2(1 + j/2^23), and floats next to K >= 2^a are 2^(a-23) apart, so
\* a fraction below half of that is lost.  log2(1 + j/2^23) is j/2^23 *
\* 1.442695 for the small j that matter; a fraction between 1/4 and 3/4 of
\* the spacing may go either way with the library.
Log2Ceilings(v, y) ==
    LET K == y.e + 23
        j == y.m - Pow2(23)
        a == BitLen(K) - 1
    IN  IF j = 0 THEN {K}
        ELSE IF v = "orig" \/ K = 0 \/ j > 16 THEN {K + 1}
        ELSE IF 4 * j * 1442695 <= Pow2(a) * 1000000 THEN {K}
        ELSE IF 4 * j * 1442695 < 3 * Pow2(a) * 1000000 THEN {K, K + 1}
        ELSE {K + 1}

\* the values the precision of an entry of frequency freq can take in a
\* line of lineSize bytes
Precisions(v, freq, lineSize) ==
    LET probability == FloatQuotient(FloatOfInt(freq), FloatOfInt(lineSize))
    IN  Log2Ceilings(v, FloatQuotient(FloatOfInt(1), probability))

\* longest of the short lines of which every frequency is tried
MaxGenSize == 12

\* the frequency and line length pairs tried: every pair of a short line, and
\* pairs of lines of 1.6 to 16 million bytes
GenPairs ==
    { <<f, n>> \in (1 .. MaxGenSize) \X (1 .. MaxGenSize) : f <= n }
      \cup { <<25, 1638401>>, <<1, 4194305>>, <<3, 12582913>>, <<1, 16777217>>,
             <<1638400, 1638401>>, <<1, 1000000>>, <<7, 3000000>> }

\* the two statements of the code loop that compute the precision
GeneratePrecision ==
    /\ gen.pc = "start"
    /\ \E k \in Precisions(variant, gen.freq, gen.lineSize) :
          gen' = [gen EXCEPT !.precision = k, !.pc = "done"]
    /\ UNCHANGED <<variant, stdinLines, console, mvars, cvars, svars>>

InitPrecision ==
    /\ variant \in Variants
    /\ stdinLines = <<>>
    /\ IdleMutex
    /\ IdleNet
    /\ gen \in { [freq |-> p[1], lineSize |-> p[2], precision |-> 0, pc |-> "start"] :
                    p \in GenPairs }

NextPrecision == GeneratePrecision

\* the precision of one entry, computed on its own
SpecPrecision == InitPrecision /\ [][NextPrecision]_vars

-----------------------------------------------------------------------------
(* Properties of the threaded program (mutex.cpp) *)

\* the result-block lines on the console, in order
IsBlockLine(e) == e.kind \in {"Message", "Encoded"}
Blocks == SelectSeq(console, IsBlockLine)

\* C1: in the mutex variant the result blocks are printed in task order
\* 0, 1, ..., N-1 under every interleaving: the k-th block is written by the
\* k-th created thread, carries index k and the k-th input line, it is begun
\* only after the blocks before it are complete, and once main has joined
\* every worker each task has printed exactly one block.
C1_OrderedEmission ==
    /\ \A k \in 1 .. Len(Blocks) :
           LET e == Blocks[k]
               i == (k - 1) \div 2
           IN  /\ e.id = i
               /\ e.t = i
               /\ e.kind = (IF k % 2 = 1 THEN "Message" ELSE "Encoded")
               /\ k % 2 = 1 => e.text = inputLines[i + 1]
    /\ mainPc \in {"destroy", "exit"} => Len(Blocks) = 2 * NumTasks

\* C1 witness: task 2 has finished computing and is parked on the cursor
\* while task 0 is in the middle of its block and task 1 is still computing
C1_Witness ==
    /\ NumTasks >= 3
    /\ wpc[2] = "wait"
    /\ wpc[1] = "encode"
    /\ wpc[0] = "printRest"

\* a worker that has copied both fields of the staging record
HasCopied(w) == wpc[w] \notin {"none", "copyLine", "copyId"}

\* a worker that has not yet released the handoff lock
InHandoff(w) == wpc[w] \in {"copyLine", "copyId", "logStart", "unlock1"}

\* C2: the private copy (line, id) of the i-th spawned thread is
\* (inputLines[i], i); main writes the staging record only while no worker
\* is still between its creation and its release of mutex1; no two workers
\* hold the same id.
C2_HandoffIsolated ==
    /\ \A w \in Slots :
           /\ HasCopied(w) => localLine[w] = inputLines[w + 1] /\ localID[w] = w
           /\ wpc[w] = "copyId" => localLine[w] = inputLines[w + 1]
    /\ mainPc \in {"setLine", "setId", "create"} => \A w \in Slots : ~InHandoff(w)
    /\ \A w, u \in Slots : HasCopied(w) /\ HasCopied(u) /\ w # u => localID[w] # localID[u]

\* C2 witness: main is writing the staging record for line 2 while thread 0
\* and thread 1, which copied different lines, are both still running
C2_Witness ==
    /\ NumTasks >= 3
    /\ mainPc = "setId"
    /\ mainI = 2
    /\ wpc[0] = "encode"
    /\ wpc[1] = "encode"
    /\ localLine[0] # localLine[1]
    /\ sharedLine # localLine[1]

\* the workers whose encode step threw
Failed(w) == \E k \in 1 .. Len(console) : console[k].kind = "LogError" /\ console[k].t = w

\* C8 (as claimed): a task whose encode step throws still takes its turn: by
\* the time it returns the cursor has moved past its index.
C8_FailedTaskTakesTurn ==
    \A w \in Slots : Failed(w) /\ wpc[w] = "done" => counter > localID[w]

-----------------------------------------------------------------------------
(* Properties of the client and the server *)

\* the kinds of the three parts of a result block, in the order printed
BlockKinds == <<"Message", "Alphabet", "Encoded">>

\* the console without the "No input provided." notice
ResultLines == SelectSeq(console, LAMBDA e : e.kind # "NoInput")

\* C3: whatever order the connection threads finish in, main prints the
\* result blocks in input-line order 0 .. N-1, one block per task: the k-th
\* part printed belongs to task (k-1) div 3, the block starts with the task's
\* own line, and when main has returned there are exactly N blocks.
C3_BlocksInInputOrder ==
    /\ \A k \in 1 .. Len(ResultLines) :
          LET e == ResultLines[k]
              i == (k - 1) \div 3
          IN  /\ e.t = MainThread
              /\ e.id = i
              /\ e.kind = BlockKinds[((k - 1) % 3) + 1]
              /\ e.kind = "Message" => e.text = ReadInput(variant, stdinLines)[i + 1]
    /\ clientProc = "returned" => Len(ResultLines) = 3 * NumClients

\* main has returned after printing the blocks of two tasks with different lines
C3_Witness ==
    /\ clientProc = "returned"
    /\ NumClients >= 2
    /\ Len(ResultLines) = 3 * NumClients
    /\ threadData[1].line # threadData[2].line
    /\ ResultLines[4].text = threadData[2].line

\* the record of task i holds what the encoder gives for `line`
HoldsEncodingOf(i, line) ==
    /\ threadData[i + 1].charCodeVec = shannonCode(line).charCodeVec
    /\ threadData[i + 1].encodedLine = BytesOf(shannonCode(line).encodedLine)

\* C4: for every line L shorter than 31 bytes, with every read and write
\* complete, the alphabet (symbols, frequencies, codes, order) and the
\* encoded string the client task stores equal the encoder's result on L.
C4_RoundTrip ==
    \A i \in Conns :
        (cpc[i] = "done" /\ Len(threadData[i + 1].line) < BUFFER_SIZE - 1)
            => HoldsEncodingOf(i, threadData[i + 1].line)

\* the same for the lines that hold no NUL byte
C4_RoundTripNoNul ==
    \A i \in Conns :
        (/\ cpc[i] = "done"
         /\ Len(threadData[i + 1].line) < BUFFER_SIZE - 1
         /\ \A k \in 1 .. Len(threadData[i + 1].line) : threadData[i + 1].line[k] # 0)
            => HoldsEncodingOf(i, threadData[i + 1].line)

\* C5: writer and reader agree on the fields.  The bytes the client's next
\* read takes were all written as the field that read is for, the byte after
\* them was written as another field, a client past its last read has left
\* no byte unread, the handler has nothing left to send but an empty
\* encoded string, and the client holds the values the handler wrote.
C5_WriterReaderAgree ==
    \A i \in Conns :
        /\ (cpc[i] \in ReadPcs /\ Len(s2c[i]) >= ReadWidth(cpc[i], clocal[i])) =>
              /\ \A k \in 1 .. ReadWidth(cpc[i], clocal[i]) : s2c[i][k].f = FieldOf(cpc[i])
              /\ Len(s2c[i]) > ReadWidth(cpc[i], clocal[i])
                    => s2c[i][ReadWidth(cpc[i], clocal[i]) + 1].f # FieldOf(cpc[i])
        /\ (cpc[i] \in ReadPcs /\ s2c[i] # <<>> /\ ReadWidth(cpc[i], clocal[i]) > 0)
              => s2c[i][1].f = FieldOf(cpc[i])
        /\ cpc[i] \in {"close", "done"} =>
              /\ s2c[i] = <<>>
              /\ hpc[i] \in {"writeEnc", "close", "exited"}
              /\ hpc[i] = "writeEnc" => hmsg[i].encodedLine = <<>>
              /\ threadData[i + 1].charCodeVec = hmsg[i].charCodeVec
              /\ threadData[i + 1].encodedLine = BytesOf(hmsg[i].encodedLine)

\* the client is about to read the code of the second alphabet entry, whose
\* bytes are in flight
C5_Witness ==
    /\ cpc[0] = "readCode"
    /\ clocal[0].idx >= 1
    /\ clocal[0].codeLength >= 1
    /\ Len(s2c[0]) >= clocal[0].codeLength

\* the first 31 bytes of a line
First31(line) == Take(line, BUFFER_SIZE - 1)

\* C6: for a line of 31 bytes or more the request is the first 31 bytes of
\* the line and a NUL, nothing is written past the 32-byte buffer, the
\* exchange ends without an error, and the handler encodes those 31 bytes.
C6_LongLineTruncated ==
    \A i \in Conns :
        (cpc[i] # "none" /\ Len(threadData[i + 1].line) >= BUFFER_SIZE - 1) =>
            /\ overrun[i] = 0
            /\ clientProc # "aborted"
            /\ Len(c2s[i]) = BUFFER_SIZE => c2s[i] = BytesOf(First31(threadData[i + 1].line)) \o <<0>>
            /\ hpc[i] \notin {"none", "read"} => hmsg[i].line = First31(threadData[i + 1].line)

\* task i has reported an error
Reported(i) == \E k \in 1 .. Len(console) : console[k].kind = "Error" /\ console[k].id = i

\* C7: after a read that returned fewer bytes than asked for, the side that
\* read has stopped with an error: the client thread has reported one and
\* reads no further, the handler has left its exchange.
C7_ShortTransferIsFatal ==
    \A k \in 1 .. Len(shortSeen) :
        LET side == shortSeen[k][1]
            i    == shortSeen[k][2]
        IN  /\ side = "client" => Reported(i) /\ (clientProc = "exit0" \/ cpc[i] = "done")
            /\ side = "handler" => hpc[i] = "failed"

\* the block of task i has been printed
Printed(i) ==
    \E k \in 1 .. Len(console) :
        console[k].t = MainThread /\ console[k].kind = "Encoded" /\ console[k].id = i

\* C9: a failure in one task does not abort the others: when the client
\* process has ended, every task that reported no error has finished its
\* exchange and its block has been printed.
C9_SiblingsSurvive ==
    clientProc \in {"exit0", "returned"} =>
        \A j \in 0 .. (NumClients - 1) : ~Reported(j) => cpc[j] = "done" /\ Printed(j)

\* C10: the error report of task i comes in the turn of task i: after the
\* blocks of the tasks 0 .. i-1 and before anything of the tasks after i.
C10_ErrorInTurn ==
    \A p \in 1 .. Len(console) :
        console[p].kind = "Error" =>
            /\ \A j \in 0 .. (console[p].id - 1) :
                  \E q \in 1 .. (p - 1) :
                      console[q].t = MainThread /\ console[q].kind = "Encoded" /\ console[q].id = j
            /\ \A q \in 1 .. (p - 1) : console[q].id <= console[p].id

-----------------------------------------------------------------------------
(* Properties of the encoder, on the records multiThreading.cpp fills *)

\* the threads that have run the count loop, the sort, the code loop
Counted(i) == i < NumClients /\ cpc[i] \in {"sort", "codes", "encodeLine", "logDone", "done"}
Sorted(i)  == i < NumClients /\ cpc[i] \in {"codes", "encodeLine", "logDone", "done"}
Coded(i)   == i < NumClients /\ cpc[i] \in {"encodeLine", "logDone", "done"}

\* a is b or a proper prefix of b
IsPrefix(a, b) == Len(a) <= Len(b) /\ SubSeq(b, 1, Len(a)) = a

RECURSIVE SumFreq(_)
SumFreq(vec) == IF vec = <<>> THEN 0 ELSE Head(vec).freq + SumFreq(Tail(vec))

\* C12: for a non-empty line the alphabet has exactly one entry per distinct
\* byte of the line, every frequency is at least 1, and the frequencies add
\* up to the length of the line.
C12_AlphabetCounts ==
    \A i \in Conns :
        (Counted(i) /\ threadData[i + 1].line # <<>>) =>
            LET vec  == threadData[i + 1].charCodeVec
                line == threadData[i + 1].line
            IN  /\ { vec[k].character : k \in 1 .. Len(vec) } = Elements(line)
                /\ \A j, k \in 1 .. Len(vec) : j # k => vec[j].character # vec[k].character
                /\ \A k \in 1 .. Len(vec) : vec[k].freq >= 1
                /\ SumFreq(vec) = Len(line)

\* a counted line of three distinct bytes, one of them repeated
C12_Witness ==
    /\ cpc[0] = "sort"
    /\ Len(threadData[1].charCodeVec) = 3
    /\ Len(threadData[1].line) > 3

\* What std::sort with compareFreqChar gives: the alphabet is sorted by
\* descending frequency, ties broken by the descending value of the symbol
\* as a char (a signed char: the bytes 128 to 255 come after the bytes 0 to
\* 127), and adjacent entries are strictly ordered.
C13_SortedByFreqThenChar ==
    \A i \in Conns :
        Sorted(i) =>
            \A k \in 1 .. (Len(threadData[i + 1].charCodeVec) - 1) :
                LET a == threadData[i + 1].charCodeVec[k]
                    b == threadData[i + 1].charCodeVec[k + 1]
                IN  \/ a.freq > b.freq
                    \/ a.freq = b.freq /\ a.character > b.character

\* a sorted alphabet with a tie between 'a' and the byte 0xC3
C13_Witness ==
    /\ cpc[0] = "codes"
    /\ Len(threadData[1].charCodeVec) >= 2
    /\ \E k \in 1 .. (Len(threadData[1].charCodeVec) - 1) :
          /\ threadData[1].charCodeVec[k].freq = threadData[1].charCodeVec[k + 1].freq
          /\ threadData[1].charCodeVec[k].character = 97
          /\ threadData[1].charCodeVec[k + 1].character = 0 - 61

\* C13: the alphabet of every line is sorted by descending frequency with
\* ties broken by the descending byte value of the symbol, and adjacent
\* entries are strictly ordered.
C13_SortedByFreqThenByte ==
    \A i \in Conns :
        Sorted(i) =>
            \A k \in 1 .. (Len(threadData[i + 1].charCodeVec) - 1) :
                LET a == threadData[i + 1].charCodeVec[k]
                    b == threadData[i + 1].charCodeVec[k + 1]
                IN  \/ a.freq > b.freq
                    \/ a.freq = b.freq /\ ToByte(a.character) > ToByte(b.character)

\* the smallest k >= from with f * 2^k >= n
RECURSIVE LeastShift(_, _, _)
LeastShift(f, n, from) == IF f * Pow2(from) >= n THEN from ELSE LeastShift(f, n, from + 1)

\* C14: for a non-empty line of length n, the precision the code loop
\* computes for an entry of frequency f, which is the length of the entry's
\* code, is ceil(log2(n / f)): the smallest k >= 0 with f * 2^k >= n.
C14_PrecisionIsCeilLog2 ==
    gen.pc = "done" => gen.precision = LeastShift(gen.freq, gen.lineSize, 0)

\* in the records multiThreading.cpp fills for the short lines, the length
\* of every code is the smallest k >= 0 with f * 2^k >= n
CodeLengthOnShortLines ==
    \A i \in Conns :
        (Coded(i) /\ threadData[i + 1].line # <<>>) =>
            \A k \in 1 .. Len(threadData[i + 1].charCodeVec) :
                LET e == threadData[i + 1].charCodeVec[k]
                IN  Len(e.code) = LeastShift(e.freq, Len(threadData[i + 1].line), 0)

\* C15: for a line of one byte value repeated the alphabet has one entry,
\* with the length of the line as frequency and the empty code, and the
\* encoded string is empty.
C15_SingleSymbol ==
    \A i \in Conns :
        (/\ i < NumClients
         /\ cpc[i] = "done"
         /\ threadData[i + 1].line # <<>>
         /\ Cardinality(Elements(threadData[i + 1].line)) = 1) =>
            /\ Len(threadData[i + 1].charCodeVec) = 1
            /\ threadData[i + 1].charCodeVec[1].character = threadData[i + 1].line[1]
            /\ threadData[i + 1].charCodeVec[1].freq = Len(threadData[i + 1].line)
            /\ threadData[i + 1].charCodeVec[1].code = <<>>
            /\ threadData[i + 1].encodedLine = <<>>

\* the finished record of the line "aaaa"
C15_Witness ==
    /\ cpc[0] = "done"
    /\ threadData[1].line = <<97, 97, 97, 97>>
    /\ Len(threadData[1].charCodeVec) = 1

-----------------------------------------------------------------------------
(* The empty line in mutex.cpp *)

\* C16: an empty input line is a task like any other: when main has ended,
\* every input line, empty ones included, has its block at its own position,
\* and the block of an empty line has an empty encoded string.
C16_EmptyLineIsTask ==
    mainPc = "exit" =>
        /\ Len(Blocks) = 2 * Len(stdinLines)
        /\ \A k \in 1 .. Len(stdinLines) :
              /\ Blocks[2 * k - 1].kind = "Message"
              /\ Blocks[2 * k - 1].text = stdinLines[k]
              /\ Blocks[2 * k].kind = "Encoded"
              /\ stdinLines[k] = <<>> => Blocks[2 * k].text = <<>>

-----------------------------------------------------------------------------
(* Properties of the listener and its children *)

\* C17: the listener stays in its accept loop and does none of the work of
\* a connection: no step of the listener reads or writes a connection or
\* touches a handler's message, and every connection in the listen queue is
\* eventually accepted even if the handlers and the clients stall forever.
C17_ListenerKeepsAccepting ==
    /\ [][listener' # listener =>
             /\ listener'.pc \in {"accept", "fork", "closeNew"}
             /\ c2s' = c2s /\ s2c' = s2c /\ hmsg' = hmsg /\ sClosed' = sClosed]_vars
    /\ \A c \in Conns : (conn[c] = "pending") ~> (conn[c] = "accepted")

\* the listener is back at accept after its second connection while the
\* handler of the first one has not read its request yet
C17_Witness ==
    /\ hpc[0] = "read"
    /\ listener.forked = 2
    /\ listener.pc = "accept"
    /\ conn[hfd[1]] = "accepted"

\* C18: every handler that has terminated is eventually reaped, and fireman
\* returns only when no terminated handler is left, so that one delivery of
\* SIGCHLD serves every handler that ended before it.
C18_ZombiesAreReaped ==
    /\ [][listener.inFireman /\ ~listener'.inFireman => Zombies = {}]_vars
    /\ \A h \in Conns : (hpc[h] \in {"exited", "failed", "killed"}) ~> (h \in reaped)

\* two handlers have terminated and a single run of fireman is under way:
\* their two signals were delivered as one
C18_Witness ==
    /\ Cardinality(Zombies) = 2
    /\ listener.inFireman
    /\ ~sigPending
    /\ reaped = {}

\* the children that have ended, one way or another
Ended == { h \in Conns : hpc[h] \in {"exited", "failed", "killed"} }

\* C19: a failing read or write ends the handler it happens in and nothing
\* else: the step leaves the listener, its queue, every other handler and
\* every other connection as they were, so that what they could do before
\* they can still do; and a handler that has not failed ends only by its
\* own close and _exit(0).
C19_HandlerFailureIsLocal ==
    [][\A h \in Conns :
          hpc[h] \notin {"failed", "killed"} /\ hpc'[h] \in {"failed", "killed"} =>
              /\ listener' = listener
              /\ backlog' = backlog
              /\ conn' = conn
              /\ \A g \in Conns \ {h} :
                    /\ hpc'[g] = hpc[g] /\ hmsg'[g] = hmsg[g] /\ hidx'[g] = hidx[g]
                    /\ hfd'[g] = hfd[g]
                    /\ hpc[g] # "none" /\ g \notin Ended =>
                          /\ s2c'[hfd[g]] = s2c[hfd[g]]
                          /\ c2s'[hfd[g]] = c2s[hfd[g]]
                          /\ sClosed'[hfd[g]] = sClosed[hfd[g]]
              /\ \A k \in Conns :
                    hpc[k] # "exited" /\ hpc'[k] = "exited" => hpc[k] = "close"]_vars

\* one handler has failed while another is in the middle of its response
C19_Witness ==
    \E h, g \in Conns :
        /\ hpc[h] = "failed"
        /\ hpc[g] \in WritePcs \ {"writeSize"}
        /\ listener.pc = "accept"

\* the children that have been forked
Forked == { h \in Conns : hpc[h] # "none" }

\* C20: each accepted connection has one handler and each handler one
\* connection, for as long as it lives; only the handler of a connection
\* adds bytes to it; what a handler encodes is the line its own client sent,
\* and what a client task has stored at its end is the encoding of its line.
C20_OneHandlerPerConnection ==
    /\ [](/\ \A h, g \in Forked : hfd[h] = hfd[g] => h = g
          /\ \A h \in Forked : hfd[h] \in Conns /\ conn[hfd[h]] = "accepted"
          /\ \A h \in Forked :
                hpc[h] # "read" => hmsg[h].line = threadData[hfd[h] + 1].line
          /\ \A i \in Conns :
                cpc[i] = "done" => HoldsEncodingOf(i, threadData[i + 1].line))
    /\ [][/\ \A h \in Forked : hfd'[h] = hfd[h]
          /\ \A c \in Conns :
                Len(s2c'[c]) > Len(s2c[c]) =>
                    \E g \in Forked : hfd[g] = c /\ hpc[g] \in WritePcs /\ hpc'[g] # hpc[g]]_vars

\* the second client connected first, so the first child serves it, and
\* both children have bytes of their responses in flight
C20_Witness ==
    /\ hfd[0] = 1 /\ hfd[1] = 0
    /\ hpc[0] \in WritePcs /\ hpc[1] \in WritePcs
    /\ s2c[0] # <<>> /\ s2c[1] # <<>>
    /\ threadData[1].line # threadData[2].line

-----------------------------------------------------------------------------
(* Properties of the cursor and of the handoff lock in mutex.cpp *)

\* C21: under fair scheduling and with no failing task every worker
\* eventually prints its block and returns, every join returns and main
\* terminates: no worker is parked on the condition forever and main is not
\* held at mutex1 forever.
C21_EveryTaskTerminates ==
    <>(/\ mainPc = "exit"
       /\ \A w \in Slots : w < NumTasks => wpc[w] = "done"
       /\ Len(Blocks) = 2 * NumTasks)

\* two workers are parked on the condition, the later one ahead of its turn
\* by two, while the first task is about to broadcast
C21_Witness ==
    /\ condWaiters = {1, 2}
    /\ wpc[0] = "broadcast"
    /\ counter = 1

\* task i has printed its block: its last line is on the console
HasPrinted(i) ==
    \E k \in 1 .. Len(console) : console[k].kind = "Encoded" /\ console[k].id = i

\* C22: the cursor starts at 0 and lies between 0 and N; a step changes it
\* only by +1, and the step is taken by the worker whose index is the
\* cursor's value, after that worker has printed its block; once every task
\* has finished the cursor is N.
C22_CursorAdvancesByOwner ==
    /\ counter = 0
    /\ [](counter \in 0 .. NumTasks)
    /\ []((\A w \in Slots : w < NumTasks => wpc[w] = "done") => counter = NumTasks)
    /\ [][counter' # counter =>
             /\ counter' = counter + 1
             /\ HasPrinted(counter)
             /\ \E w \in Slots :
                   /\ localID[w] = counter /\ w = counter
                   /\ wpc[w] = "incr" /\ wpc'[w] = "broadcast"]_vars

\* the last of three tasks has advanced the cursor to N
C22_Witness ==
    /\ NumTasks = 3
    /\ counter = 3
    /\ wpc[2] = "broadcast"

\* worker w has left its wait loop and has not yet advanced the cursor
InPrintSection(w) == wpc[w] \in {"print", "printRest", "lock2b", "incr"}

\* C23: at most one worker at a time is between leaving the wait loop on
\* the cursor and incrementing the cursor, although it prints without
\* holding mutex2; that worker is the one whose index is the cursor.
C23_OnePrinterAtATime ==
    \A w, u \in Slots :
        InPrintSection(w) /\ InPrintSection(u) => w = u /\ localID[w] = counter

\* a worker prints while another worker holds mutex2
C23_Witness ==
    \E w, u \in Slots :
        /\ wpc[w] = "printRest"
        /\ u # w
        /\ mutex2 = {u}
        /\ wpc[u] = "check"

\* C24: each result block on the console is contiguous: between the first
\* line of a task's block and its last line no other thread writes to
\* standard output, log lines included.
C24_BlocksContiguous ==
    \A k \in 1 .. Len(console) :
        console[k].kind = "Message" /\ k < Len(console) =>
            /\ console[k + 1].kind = "Encoded"
            /\ console[k + 1].t = console[k].t

\* C25: thread creation is held back by the copy step only: main, about to
\* lock mutex1 for the next task, can proceed exactly when no worker is
\* still between its creation and its release of mutex1, whatever the
\* workers past that point are doing; workers compute concurrently.
C25_OnlyCopyIsSerialized ==
    mainPc = "lock1" => (ENABLED MainLock1 <=> \A w \in Slots : ~InHandoff(w))

\* C25 witness: three workers are in the compute phase at the same time
C25_Witness ==
    /\ NumTasks >= 3
    /\ wpc[0] = "encode"
    /\ wpc[1] = "encode"
    /\ wpc[2] = "encode"

\* C26: mutex1 is locked by main only and unlocked only by the worker
\* created last, once by each worker and never while it is unlocked; at
\* most one worker has not yet released it; it is unlocked when main is
\* past the joins (where the refactored file destroys it).
C26_Mutex1Discipline ==
    /\ [](\A w \in Slots : wpc[w] = "unlock1" => mutex1)
    /\ [](\A w, u \in Slots : InHandoff(w) /\ InHandoff(u) => w = u)
    /\ [](mainPc \in {"destroy", "exit"} => ~mutex1)
    /\ [][/\ (~mutex1 /\ mutex1' => mainPc = "lock1" /\ mainPc' = "setLine")
          /\ (mutex1 /\ ~mutex1' =>
                 \E w \in Slots : /\ wpc[w] = "unlock1" /\ wpc'[w] = "encode"
                                   /\ \A u \in Slots : u > w => wpc[u] = "none")
          /\ \A x \in Slots : wpc[x] = "unlock1" /\ wpc'[x] # "unlock1" => mutex1 /\ ~mutex1'
          /\ \A x \in Slots : wpc'[x] = "unlock1" => wpc[x] \in {"copyId", "logStart", "unlock1"}]_vars

\* C26 witness: the worker created last is about to unlock mutex1 while the
\* two workers before it, which unlocked it in their turn, are still running
C26_Witness ==
    /\ NumTasks >= 3
    /\ wpc[2] = "unlock1"
    /\ mutex1
    /\ wpc[0] \notin {"none", "done"}
    /\ wpc[1] \notin {"none", "done"}

\* C27: when the creation of the thread of task i fails, the tasks created
\* before it still complete: once the process has ended, the block of every
\* task below i is on the console.
C27_CreatedTasksComplete ==
    mainPc = "exit1" => \A w \in Slots : w < mainI => HasPrinted(w)

-----------------------------------------------------------------------------
(* The codes as binary expansions *)

\* the first `bits` binary digits of the fraction num / den, 0 <= num < den
RECURSIVE BinaryExpansion(_, _, _)
BinaryExpansion(num, den, bits) ==
    IF bits = 0 THEN <<>>
    ELSE IF 2 * num >= den
    THEN <<49>> \o BinaryExpansion(2 * num - den, den, bits - 1)
    ELSE <<48>> \o BinaryExpansion(2 * num, den, bits - 1)

\* C28: the code of the entry at position k of the alphabet is the first
\* precision_k binary digits of the cumulative probability before it, the
\* sum of the frequencies of the entries before k divided by the length of
\* the line; its length is precision_k.
C28_CodeIsExpansionOfCumulative ==
    \A i \in Conns :
        Coded(i) =>
            LET vec == threadData[i + 1].charCodeVec
                n   == Len(threadData[i + 1].line)
            IN  \A k \in 1 .. Len(vec) :
                    vec[k].code = BinaryExpansion(SumFreq(Take(vec, k - 1)), n,
                                                  LeastShift(vec[k].freq, n, 0))

\* the code the alphabet vec holds for the byte c
CodeFor(vec, c) == (CHOOSE e \in Elements(vec) : e.character = c).code

\* the total length of the codes of the first j bytes of the line
RECURSIVE CodeLenSum(_, _, _)
CodeLenSum(vec, line, j) ==
    IF j = 0 THEN 0 ELSE CodeLenSum(vec, line, j - 1) + Len(CodeFor(vec, line[j]))

\* the sum over the alphabet of frequency times code length
RECURSIVE WeightedLength(_)
WeightedLength(vec) ==
    IF vec = <<>> THEN 0 ELSE Head(vec).freq * Len(Head(vec).code) + WeightedLength(Tail(vec))

\* C29: the encoded string is the concatenation, over the bytes of the line
\* in order, of the code of each byte: the code of the j-th byte stands right
\* after the codes of the bytes before it; the length of the encoded string
\* is the sum over the alphabet of frequency times code length.
C29_EncodedIsConcatenation ==
    \A i \in Conns :
        (i < NumClients /\ cpc[i] \in {"logDone", "done"}) =>
            LET vec  == threadData[i + 1].charCodeVec
                line == threadData[i + 1].line
                enc  == threadData[i + 1].encodedLine
            IN  /\ Len(enc) = WeightedLength(vec)
                /\ Len(enc) = CodeLenSum(vec, line, Len(line))
                /\ \A j \in 1 .. Len(line) :
                       SubSeq(enc, CodeLenSum(vec, line, j - 1) + 1, CodeLenSum(vec, line, j))
                           = CodeFor(vec, line[j])

\* C29 witness: the finished record of the line "cabc", whose bytes are not
\* in alphabet order and whose codes have different lengths
C29_Witness ==
    /\ cpc[0] = "done"
    /\ threadData[1].line = <<99, 97, 98, 99>>
    /\ Len(threadData[1].encodedLine) = 6

-----------------------------------------------------------------------------
(* decimalToBinary called on its own, negative precisions included *)

\* largest denominator of the decimals converted
MaxConvertDen == 6

\* largest precision asked for, and largest negative one
MaxConvertPrecision == 4
MaxNegativePrecision == 2

\* the floats f / n below 1
ConvertDecimals ==
    UNION { { FloatDiv(f, n) : f \in 0 .. (n - 1) } : n \in 1 .. MaxConvertDen }

\* the outcome of a call of decimalToBinary(decimal, precision):
\*   refactored files: if (precision < 0) throw std::invalid_argument(...)
\*   original files:   no test; both loops are skipped when precision <= 0
decimalToBinaryCall(v, decimal, precision) ==
    IF v = "refactored" /\ precision < 0
    THEN [thrown |-> TRUE, binary |-> <<>>]
    ELSE [thrown |-> FALSE, binary |-> decimalToBinary(decimal, precision)]

\* one call of decimalToBinary
ConvertDecimal ==
    /\ gen.pc = "call"
    /\ gen' = [decimal |-> gen.decimal, precision |-> gen.precision, pc |-> "returned",
               outcome |-> decimalToBinaryCall(variant, gen.decimal, gen.precision)]
    /\ UNCHANGED <<variant, stdinLines, console, mvars, cvars, svars>>

InitConvert ==
    /\ variant \in Variants
    /\ stdinLines = <<>>
    /\ IdleMutex
    /\ IdleNet
    /\ gen \in { [decimal |-> d, precision |-> p, pc |-> "call",
                   outcome |-> [thrown |-> FALSE, binary |-> <<>>]] :
                    d \in ConvertDecimals,
                    p \in (0 - MaxNegativePrecision) .. MaxConvertPrecision }

NextConvert == ConvertDecimal

\* decimalToBinary on any decimal below 1 and any small precision
SpecConvert == InitConvert /\ [][NextConvert]_vars

\* C30: a call of decimalToBinary with a negative precision does not return
\* a string as if nothing were wrong: it ends in an error.
C30_NegativePrecisionRejected ==
    (gen.pc = "returned" /\ gen.precision < 0) => gen.outcome.thrown

-----------------------------------------------------------------------------
(* The life of a handler process *)

\* how far a handler is: not forked, reading, responding, closing, ended
HandlerStage(pc) ==
    IF pc = "none" THEN 0
    ELSE IF pc = "read" THEN 1
    ELSE IF pc \in WritePcs THEN 2
    ELSE IF pc = "close" THEN 3
    ELSE 4

\* C31: a handler reads its request, encodes, writes its response, closes
\* and terminates, each once and in this order; whether it succeeds or
\* fails it ends for good, and none of its steps is a step of the accept
\* loop: it accepts nothing and forks nothing.
C31_HandlerLifecycle ==
    [][\A h \in Conns :
          /\ HandlerStage(hpc'[h]) >= HandlerStage(hpc[h])
          /\ HandlerStage(hpc[h]) = 4 => hpc'[h] = hpc[h]
          /\ hpc[h] = "none" /\ hpc'[h] # "none" => hpc'[h] = "read" /\ listener.pc = "fork"
          /\ hpc[h] = "read" /\ hpc'[h] # "read" =>
                 HandlerStage(hpc'[h]) = 4 \/ hpc'[h] = "writeSize"
          /\ hmsg'[h] # hmsg[h] => hpc[h] = "read" /\ hpc'[h] = "writeSize"
          /\ hpc'[h] = "exited" /\ hpc[h] # "exited" => hpc[h] = "close" /\ sClosed'[hfd[h]]
          /\ hpc[h] # "none" /\ hpc'[h] # hpc[h] =>
                 /\ listener' = listener
                 /\ backlog' = backlog
                 /\ conn' = conn
                 /\ \A g \in Conns : hpc[g] = "none" => hpc'[g] = "none"]_vars

\* C31 witness: one child has ended by its _exit(0) and another by a failed
\* call, and the listener is back at accept
C31_Witness ==
    \E h, g \in Conns :
        /\ hpc[h] = "exited"
        /\ hpc[g] = "failed"
        /\ listener.pc = "accept"
        /\ listener.forked = 2

\* C32: the reaper never blocks: as soon as no terminated child is left
\* fireman can return, whatever the other children are doing; it always
\* returns, and every connection in the listen queue is accepted all the
\* same.
C32_ReaperNeverBlocks ==
    /\ [](listener.inFireman /\ Zombies = {} => ENABLED FiremanReturn)
    /\ (listener.inFireman ~> ~listener.inFireman)
    /\ \A c \in Conns : (conn[c] = "pending" /\ listener.inFireman) ~> (conn[c] = "accepted")

\* C32 witness: fireman has reaped every terminated child while another
\* child is in the middle of its response
C32_Witness ==
    /\ listener.inFireman
    /\ Zombies = {}
    /\ reaped # {}
    /\ \E h \in Conns : hpc[h] \in WritePcs

\* C33: once the handler of a connection is spawned and the listener is back
\* at accept, the listener holds no descriptor of that connection, so it
\* holds no connected socket at all while it waits; a connection whose
\* handler has terminated is closed at the server's end.
C33_ListenerHoldsNoConnection ==
    /\ listener.pc = "accept" => listener.open = {}
    /\ \A h \in Conns : hpc[h] \in {"exited", "failed", "killed"} /\ listener.pc = "accept"
                             => ServerEndClosed(hfd[h])

-----------------------------------------------------------------------------
(* The connection of a client task *)

\* C34: a client task that has ended has closed the socket it opened,
\* whichever call failed on the way; it made at most one connection and
\* sent at most one request on it.
C34_TaskClosesItsSocket ==
    \A i \in Conns :
        /\ cpc[i] = "done" => cfd[i] # "open"
        /\ Len(c2s[i]) <= BUFFER_SIZE

\* the record printed in block k of the console holds the whole response of
\* the handler of its connection
HoldsWholeResponse(k) ==
    \E h \in Conns :
        /\ hpc[h] # "none"
        /\ hfd[h] = console[k].id
        /\ console[k].text = hmsg[h].charCodeVec
        /\ console[k + 1].text = hmsg[h].encodedLine

\* C35: a client task that failed in the middle of its response leaves no
\* partial result: every block printed shows either the whole response or
\* an empty alphabet and an empty encoded line.
C35_NoPartialResult ==
    \A k \in 1 .. (Len(console) - 1) :
        console[k].kind = "Alphabet" /\ console[k + 1].kind = "Encoded" =>
            \/ HoldsWholeResponse(k)
            \/ console[k].text = <<>> /\ console[k + 1].text = <<>>

-----------------------------------------------------------------------------
(* Main and the records of the client's threads *)

\* C36: main prints no result and reads no record before every thread has
\* been joined: whenever main is in its display loop, and whenever a line of
\* a result block is written, every thread has ended, and no record changes
\* from then on.
C36_DisplayAfterJoins ==
    /\ [](cmainPc = "display" => \A i \in Conns : i < NumClients => cpc[i] = "done")
    /\ [][/\ console' # console /\ cmainPc = "display" =>
                \A i \in Conns : i < NumClients => cpc[i] = "done"
          /\ threadData' # threadData => cmainPc \in {"create", "join"}]_vars

\* C36 witness: main has printed the first block of two; both threads have
\* ended
C36_Witness ==
    /\ cmainPc = "display"
    /\ cmainI = 1
    /\ NumClients = 2
    /\ cpc[0] = "done"
    /\ cpc[1] = "done"

-----------------------------------------------------------------------------
(* The threads of multiThreading.cpp *)

\* C37: a worker of multiThreading.cpp reads and writes its own record and
\* nothing that is shared: a step of the thread of line i changes record i
\* only, leaves the line of the record and the console as they were, and
\* under every interleaving the record of a thread that has ended holds the
\* encoding of its line alone.
C37_WorkersAreIsolated ==
    /\ [](\A i \in Conns :
             i < NumClients /\ cpc[i] = "done" =>
                 /\ threadData[i + 1].charCodeVec = shannonCode(threadData[i + 1].line).charCodeVec
                 /\ threadData[i + 1].encodedLine = shannonCode(threadData[i + 1].line).encodedLine)
    /\ [][\A i \in Conns :
             cpc[i] # "none" /\ cpc'[i] # cpc[i] =>
                 /\ console' = console
                 /\ threadData'[i + 1].line = threadData[i + 1].line
                 /\ \A j \in Conns \ {i} :
                       /\ cpc'[j] = cpc[j]
                       /\ j < NumClients => threadData'[j + 1] = threadData[j + 1]]_vars

-----------------------------------------------------------------------------
(* The blocks the client prints *)

\* C38: in every block the client prints, the frequencies displayed add up
\* to the length of the message line displayed, however long the line.
C38_FrequenciesSumToLength ==
    \A k \in 2 .. Len(console) :
        console[k].kind = "Alphabet" /\ console[k - 1].kind = "Message" =>
            SumFreq(console[k].text) = Len(console[k - 1].text)

\* C39: the I/O of a connection is bounded by a timeout: even if the peer
\* stalls forever every task ends, and main prints the output of all tasks
\* and returns.
C39_StalledPeerTimesOut ==
    <>(/\ cmainPc = "exit"
       /\ \A i \in Conns : i < NumClients => cpc[i] = "done")

====
